---- MODULE Spec2Model ----
(***************************************************************************)
(* Verification model of electron-agent-tools: the launch controller       *)
(* (src/lib/launch-electron.ts) and endpoint discovery                     *)
(* (src/lib/get-ws-url.ts).                                                *)
(*                                                                         *)
(* The program runs on one event loop.  Every action below is one turn of  *)
(* that loop: a timer, an I/O completion or a child-process event,         *)
(* followed by all the promise continuations it unblocks.  Time is in      *)
(* milliseconds; `now` only moves when a timer or a pending request is     *)
(* due, and the earliest one always goes first.                            *)
(***************************************************************************)
EXTENDS Integers, Sequences, FiniteSets, TLC

VARIABLES
    now,            \* Date.now(), ms since the modelled call
    wsPc,           \* getWsUrl: "idle" | "fetching" | "sleeping" | "resolved" | "rejected"
    wsDeadline,     \* getWsUrl: deadline
    wsReqStart,     \* getWsUrl: Date.now() when the pending fetch was issued
    wsAttempt,      \* getWsUrl: attemptTimeout of the pending fetch
    wsPending,      \* how the pending fetch will settle
    wsWake,         \* when the pending fetch settles / the delay(400) ends (-1: nothing pending)
    wsLastError,    \* getWsUrl: lastError ("none" | "abort" | "error" | "badjson")
    wsPolls,        \* number of fetches issued so far
    procs,          \* the OS process table: pid -> process record
    term,           \* the running terminateTree call (a record, see TermIdle)
    cliPc,          \* launch-electron CLI "quit": "idle" | "root" | "leaf" | "ok" | "failed"
    cliRootOk,      \* CLI quit: rootOk
    cliCode,        \* CLI quit: the error code printed ("none" when it succeeded)
    cliRuns,        \* number of CLI quit invocations so far
    cliElectronPid, \* CLI quit: electronPid of the invocation (0: none)
    psRows,         \* resolveElectronPid: the rows `ps` printed, in its order
    pidResult,      \* resolveElectronPid: the pid returned (0: not called yet)
    launch,         \* one launchElectron call and its quit() (a record, see LaunchIdle)
    portsBound,     \* the local TCP ports some socket is bound to
    fp,             \* per concurrent launch: its findPort call and the port it got
    spawnEnv,       \* the environment launchElectron builds for the child (a record, see EnvIdle)
    browser,        \* the app as the driver sees it: pages and execution contexts (see BrowserIdle)
    drv,            \* the PlaywrightDriver instance (a record, see DrvIdle)
    fnCall          \* one call of a function checked on its own: its arguments and its result

wsVars == <<wsPc, wsDeadline, wsReqStart, wsAttempt, wsPending, wsWake, wsLastError, wsPolls>>

cliVars == <<cliPc, cliRootOk, cliCode, cliRuns, cliElectronPid>>

pidVars == <<psRows, pidResult>>

portVars == <<portsBound, fp>>

drvVars == <<browser, drv, fnCall>>

vars == <<now, wsVars, procs, term, cliVars, pidVars, launch, portVars, spawnEnv, drvVars>>

----------------------------------------------------------------------------
(* Generic helpers *)

Min(a, b) == IF a <= b THEN a ELSE b

Max(a, b) == IF a >= b THEN a ELSE b

NoWake == 0 - 1

\* No function is being checked on its own
FnIdle == [fn |-> "none"]

\* A pending wake-up w is due when no other pending wake-up is earlier.
Earliest(w, others) ==
    /\ w # NoWake
    /\ \A o \in others : o = NoWake \/ w <= o

----------------------------------------------------------------------------
(* getWsUrl: src/lib/get-ws-url.ts *)

PER_REQUEST_TIMEOUT_MS == 1500

POLL_DELAY_MS == 400

\* What the endpoint does with one request: it answers after a delay with one
\* of the outcomes below, or never answers ("never").
RespDelays == {0, 100}

\* "error": connection refused/reset; "status": non-2xx answer; "badjson":
\* 2xx with a body res.json() rejects on; "nourl": 2xx JSON without
\* webSocketDebuggerUrl; "emptyurl": 2xx JSON whose webSocketDebuggerUrl is
\* the empty string; "url": 2xx JSON with the address.
RespOutcomes == {"error", "status", "badjson", "nourl", "emptyurl", "url"}

Responses == [delay : RespDelays, outcome : RespOutcomes] \cup {[delay |-> 0, outcome |-> "never"]}

WsTimeouts == {0, 200, 1000, 2000, 3500}

NoCapAttemptTimeout(remaining) == remaining

\* line 20: Math.min(PER_REQUEST_TIMEOUT_MS, remaining)
AttemptTimeout(remaining) == Min(PER_REQUEST_TIMEOUT_MS, remaining)

\* line 15-17: the loop condition, evaluated at time t
WsLoopContinues(t, deadline) == t < deadline

\* lines 15-23 and 35: the head of the polling loop, entered at time t.  Either
\* a new request is issued (the AbortController's timer is armed for
\* attemptTimeout) or the deadline has passed and the timeout error is thrown.
WsLoopHead(t, responses) ==
    IF WsLoopContinues(t, wsDeadline')
    THEN \E r \in responses :
           LET at == AttemptTimeout(wsDeadline' - t) IN
             /\ wsPc' = "fetching"
             /\ wsReqStart' = t
             /\ wsAttempt' = at
             /\ wsPolls' = wsPolls + 1
             /\ IF r.outcome = "never" \/ r.delay >= at
                THEN wsPending' = "abort" /\ wsWake' = t + at
                ELSE wsPending' = r.outcome /\ wsWake' = t + r.delay
    ELSE /\ wsPc' = "rejected"
         /\ wsWake' = NoWake
         /\ wsPending' = "none"
         /\ UNCHANGED <<wsReqStart, wsAttempt, wsPolls>>

\* line 11-14: the call itself
WsEnter(timeoutMs, responses) ==
    /\ wsDeadline' = now + timeoutMs
    /\ wsLastError' = "none"
    /\ WsLoopHead(now, responses)

AnyOkResponse(outcome) == outcome \in {"url", "nourl", "emptyurl"}

\* lines 24-26: res.ok, and json.webSocketDebuggerUrl is truthy
UsableAddress(outcome) == outcome = "url"

\* lines 23-33: the pending fetch settles (answer, network error or abort).
\* A usable address returns it; everything else falls through to delay(400).
WsFetchSettles ==
    /\ wsPc = "fetching"
    /\ now' = Max(now, wsWake)
    /\ UNCHANGED <<wsDeadline, wsReqStart, wsAttempt, wsPolls>>
    /\ wsPending' = "none"
    /\ IF UsableAddress(wsPending)
       THEN wsPc' = "resolved" /\ wsWake' = NoWake /\ UNCHANGED wsLastError
       ELSE /\ wsPc' = "sleeping"
            /\ wsWake' = now' + POLL_DELAY_MS
            /\ wsLastError' = IF wsPending \in {"abort", "error", "badjson"}
                              THEN wsPending ELSE wsLastError

\* lines 33-34, 15: delay(400) ends and the loop condition is evaluated again
WsSleepDone(responses) ==
    /\ wsPc = "sleeping"
    /\ now' = Max(now, wsWake)
    /\ UNCHANGED <<wsDeadline, wsLastError>>
    /\ WsLoopHead(now', responses)

WsIdle ==
    /\ wsPc = "idle"
    /\ wsDeadline = 0
    /\ wsReqStart = 0
    /\ wsAttempt = 0
    /\ wsPending = "none"
    /\ wsWake = NoWake
    /\ wsLastError = "none"
    /\ wsPolls = 0

----------------------------------------------------------------------------
(* The operating system's processes, as process.kill and ps see them *)

\* The pids of the model: RootPid is the spawned child (the leader of its own
\* process group, spawn's detached: true) and LeafPid a descendant of it.
RootPid == 2

LeafPid == 3

Pids == {RootPid, LeafPid}

\* The signals of terminateTree, by rank.  A process dies of every signal whose
\* rank reaches its `resist`; resist = Unkillable survives SIGKILL too (a
\* process stuck in the kernel, or a zombie nobody reaps).
SigRank(sig) == CASE sig = "SIGINT" -> 1 [] sig = "SIGTERM" -> 2 [] sig = "SIGKILL" -> 3

Unkillable == SigRank("SIGKILL") + 1

Resists == 1..Unkillable

\* exists: the pid names a process (kill(pid, 0) succeeds); hit: a signal it
\* dies of has been delivered and it has not exited yet.
ProcRecords == [exists : BOOLEAN, ppid : {1, RootPid}, pgid : Pids, resist : Resists,
                hit : BOOLEAN, cmd : {"other", "app"}]

\* process.kill(target, sig): target > 0 names one process, target < 0 the
\* process group -target.  Errors (ESRCH, EPERM) are swallowed by the callers.
Kill(ps, target, sig) ==
    [p \in Pids |->
        IF /\ ps[p].exists
           /\ (IF target > 0 THEN p = target ELSE ps[p].pgid = 0 - target)
           /\ SigRank(sig) >= ps[p].resist
        THEN [ps[p] EXCEPT !.hit = TRUE]
        ELSE ps[p]]

\* pkill -<sig> -P pid: the signal goes to the direct children of pid
PkillChildren(ps, pid, sig) ==
    [p \in Pids |->
        IF ps[p].exists /\ ps[p].ppid = pid /\ SigRank(sig) >= ps[p].resist
        THEN [ps[p] EXCEPT !.hit = TRUE]
        ELSE ps[p]]

\* A process exits: its pid no longer exists and its children are re-parented
\* to init (pid 1).
Exited(ps, pid) ==
    [p \in Pids |->
        IF p = pid THEN [ps[p] EXCEPT !.exists = FALSE, !.hit = FALSE]
        ELSE IF ps[p].ppid = pid THEN [ps[p] EXCEPT !.ppid = 1]
        ELSE ps[p]]

AlwaysAlive(ps, pid) == TRUE

\* launch-electron.ts 89-96: process.kill(pid, 0) succeeds
isAlive(ps, pid) == ps[pid].exists

----------------------------------------------------------------------------
(* terminateTree (POSIX branch): src/lib/launch-electron.ts 98-172 *)

signals == <<"SIGINT", "SIGTERM", "SIGKILL">>

\* line 143: wait(signal === 'SIGKILL' ? 250 : 400)
SignalWait(sig) == IF sig = "SIGKILL" THEN 250 ELSE 400

POLL_WAIT_MS == 100

FALLBACK_WAIT_MS == 200

\* pc: "idle" | "signal" | "poll" | "fallbackTerm" | "fallbackKill" | "done";
\* sent: the signals sent so far.  wasAlive and aliveAtReturn record what the
\* pid was when the call started and when it returned.
TermIdle == [pc |-> "idle", pid |-> 0, sig |-> 0, deadline |-> 0, timeoutMs |-> 0,
             wake |-> NoWake, result |-> FALSE, sent |-> <<>>,
             wasAlive |-> FALSE, aliveAtReturn |-> FALSE]

TermSendToPidOnly(tr, ps, t, i) ==
    [term |-> [tr EXCEPT !.pc = "signal", !.sig = i,
                         !.wake = t + SignalWait(signals[i]),
                         !.sent = Append(@, signals[i])],
     procs |-> Kill(ps, tr.pid, signals[i])]

\* lines 138-143: one signal to the group and to the pid, then the wait
TermSend(tr, ps, t, i) ==
    [term |-> [tr EXCEPT !.pc = "signal", !.sig = i,
                         !.wake = t + SignalWait(signals[i]),
                         !.sent = Append(@, signals[i])],
     procs |-> Kill(Kill(ps, 0 - tr.pid, signals[i]), tr.pid, signals[i])]

TermReturn(tr, ps, ok) ==
    [term |-> [tr EXCEPT !.pc = "done", !.wake = NoWake, !.result = ok,
                         !.aliveAtReturn = ps[tr.pid].exists],
     procs |-> ps]

\* lines 98-104, 135-143: the call, up to its first wait
TermStart(ps, t, pid, timeoutMs) ==
    TermSend([TermIdle EXCEPT !.pid = pid, !.timeoutMs = timeoutMs,
                              !.wasAlive = ps[pid].exists], ps, t, 1)

\* lines 149-152 and 154-159: the polling loop's head at time t; when the
\* deadline has passed, the fallback starts (pkill -TERM -P pid, wait(200))
TermPollHead(tr, ps, t) ==
    IF t < tr.deadline
    THEN IF ~isAlive(ps, tr.pid)
         THEN TermReturn(tr, ps, TRUE)
         ELSE [term |-> [tr EXCEPT !.pc = "poll", !.wake = t + POLL_WAIT_MS], procs |-> ps]
    ELSE [term |-> [tr EXCEPT !.pc = "fallbackTerm", !.wake = t + FALLBACK_WAIT_MS],
          procs |-> PkillChildren(ps, tr.pid, "SIGTERM")]

\* The continuation of terminateTree after the wait that ends at time t
TermWake(tr, ps, t) ==
    CASE tr.pc = "signal" ->
           \* lines 144-148
           IF ~isAlive(ps, tr.pid) THEN TermReturn(tr, ps, TRUE)
           ELSE IF tr.sig < Len(signals) THEN TermSend(tr, ps, t, tr.sig + 1)
           ELSE TermPollHead([tr EXCEPT !.deadline = t + tr.timeoutMs], ps, t)
      [] tr.pc = "poll" ->
           TermPollHead(tr, ps, t)
      [] tr.pc = "fallbackTerm" ->
           \* lines 160-163
           [term |-> [tr EXCEPT !.pc = "fallbackKill", !.wake = t + FALLBACK_WAIT_MS],
            procs |-> PkillChildren(ps, tr.pid, "SIGKILL")]
      [] tr.pc = "fallbackKill" ->
           \* lines 164-171
           LET ps2 == Kill(ps, tr.pid, "SIGKILL") IN
             TermReturn(tr, ps2, ~isAlive(ps2, tr.pid))

\* A process that was sent a signal it dies of exits, at a moment of its own
ProcDies(p) ==
    /\ procs[p].exists
    /\ procs[p].hit
    /\ procs' = Exited(procs, p)

----------------------------------------------------------------------------
(* listChildren and resolveElectronPid: src/lib/launch-electron.ts 27-63, 258-299 *)

\* A command line, by the tests isLikelyElectron makes on it (lines 267-281):
\* base: it includes the launched command's basename; path: it matches the
\* electron binary path pattern; word: it matches the electron word pattern;
\* helper: it matches the chrome helper pattern.
CmdClass(c) ==
    CASE c = "other"  -> [base |-> FALSE, path |-> FALSE, word |-> FALSE, helper |-> FALSE]
      [] c = "app"    -> [base |-> TRUE,  path |-> FALSE, word |-> FALSE, helper |-> FALSE]
      [] c = "appbin" -> [base |-> TRUE,  path |-> TRUE,  word |-> TRUE,  helper |-> FALSE]
      [] c = "bin"    -> [base |-> FALSE, path |-> TRUE,  word |-> TRUE,  helper |-> FALSE]
      [] c = "word"   -> [base |-> FALSE, path |-> FALSE, word |-> TRUE,  helper |-> FALSE]
      [] c = "helper" -> [base |-> FALSE, path |-> FALSE, word |-> FALSE, helper |-> TRUE]

ScoreCountingTests(c) ==
    LET f == CmdClass(c) IN
      (IF f.base THEN 1 ELSE 0) + (IF f.path THEN 1 ELSE 0)
        + (IF f.word THEN 1 ELSE 0) + (IF f.helper THEN 1 ELSE 0)

\* lines 263-284: isLikelyElectron(cmd).score
isLikelyElectron(c) ==
    LET f == CmdClass(c) IN
      (IF f.base THEN 5 ELSE 0) + (IF f.path THEN 4 ELSE 0)
        + (IF f.word THEN 3 ELSE 0) + (IF f.helper THEN 1 ELSE 0)

RECURSIVE visit(_, _, _, _, _)
\* lines 50-59: visit(parent, depth), from row i on; acc is `children`
visit(rows, acc, parent, depth, i) ==
    IF i > Len(rows) THEN acc
    ELSE IF rows[i].ppid = parent /\ ~(\E k \in 1..Len(acc) : acc[k].pid = rows[i].pid)
    THEN LET pushed == Append(acc, [pid |-> rows[i].pid, ppid |-> rows[i].ppid,
                                    cmd |-> rows[i].cmd, depth |-> depth])
             below == visit(rows, pushed, rows[i].pid, depth + 1, 1) IN
           visit(rows, below, parent, depth, i + 1)
    ELSE visit(rows, acc, parent, depth, i + 1)

\* lines 27-63: listChildren(pid) over the rows ps printed
listChildren(rows, pid) == visit(rows, <<>>, pid, 1, 1)

DeepestFirstCompare(a, b) ==
    IF isLikelyElectron(b.cmd) # isLikelyElectron(a.cmd)
    THEN isLikelyElectron(b.cmd) - isLikelyElectron(a.cmd)
    ELSE IF a.depth # b.depth THEN b.depth - a.depth
    ELSE a.pid - b.pid

\* lines 292-296: the comparator of the sort
RankCompare(a, b) ==
    IF isLikelyElectron(b.cmd) # isLikelyElectron(a.cmd)
    THEN isLikelyElectron(b.cmd) - isLikelyElectron(a.cmd)
    ELSE IF a.depth # b.depth THEN a.depth - b.depth
    ELSE a.pid - b.pid

RECURSIVE SortedFirst(_, _, _)
\* ranked[0] of the sorted array: the element no other one sorts before
SortedFirst(seq, best, i) ==
    IF i > Len(seq) THEN best
    ELSE SortedFirst(seq, IF RankCompare(seq[i], best) < 0 THEN seq[i] ELSE best, i + 1)

\* lines 258-299
resolveElectronPid(rows, rootPid) ==
    LET descendants == listChildren(rows, rootPid)
        ranked == SelectSeq(descendants, LAMBDA row : isLikelyElectron(row.cmd) > 0) IN
      IF Len(descendants) = 0 THEN rootPid
      ELSE IF Len(ranked) = 0 THEN rootPid
      ELSE SortedFirst(ranked, ranked[1], 2).pid

\* The rows of `ps -eo pid=,ppid=,command=` for a process table, by rising pid
RECURSIVE PsRowsFrom(_, _, _)
PsRowsFrom(ps, pids, acc) ==
    IF pids = {} THEN acc
    ELSE LET p == CHOOSE x \in pids : \A y \in pids : x <= y IN
           PsRowsFrom(ps, pids \ {p},
                      IF ps[p].exists
                      THEN Append(acc, [pid |-> p, ppid |-> ps[p].ppid, cmd |-> ps[p].cmd])
                      ELSE acc)

PsRows(ps) == PsRowsFrom(ps, DOMAIN ps, <<>>)

----------------------------------------------------------------------------
(* findPort: src/lib/launch-electron.ts 65-87, called at line 181 *)

MaxPorts == 2

MaxLaunches == 3

MaxPortRetries == 2

\* The ports the operating system can hand to listen(0)
PortNumbers == 1..MaxPorts

Launchers == 1..MaxLaunches

\* lines 67-77: createServer().listen(0, '127.0.0.1'): the system binds the
\* server to a port no socket is bound to; with none left the server emits
\* EADDRINUSE and findPort() is called again (lines 69-72)
FindPortListen(i) ==
    /\ fp[i].pc \in {"idle", "error"}
    /\ IF PortNumbers \ portsBound = {}
       THEN /\ fp[i].retries < MaxPortRetries
            /\ fp' = [fp EXCEPT ![i].pc = "error", ![i].retries = @ + 1]
            /\ UNCHANGED portsBound
       ELSE \E p \in PortNumbers \ portsBound :
              /\ portsBound' = portsBound \cup {p}
              /\ fp' = [fp EXCEPT ![i].pc = "listening", ![i].port = p]

\* lines 77-79: the listening callback reads the address and closes the server
FindPortRelease(i) ==
    /\ fp[i].pc = "listening"
    /\ portsBound' = portsBound \ {fp[i].port}
    /\ fp' = [fp EXCEPT ![i].pc = "closing"]

\* lines 79-85: the close callback resolves with the port; line 181: cdpPort
FindPortResolve(i) ==
    /\ fp[i].pc = "closing"
    /\ fp' = [fp EXCEPT ![i].pc = "have"]
    /\ UNCHANGED portsBound

\* lines 200-215: the child is spawned with E2E_CDP_PORT and binds the port for
\* its debugging endpoint, or finds it taken
ChildBindsPort(i) ==
    /\ fp[i].pc = "have"
    /\ IF fp[i].port \in portsBound
       THEN fp' = [fp EXCEPT ![i].pc = "collision"] /\ UNCHANGED portsBound
       ELSE /\ fp' = [fp EXCEPT ![i].pc = "serving"]
            /\ portsBound' = portsBound \cup {fp[i].port}

----------------------------------------------------------------------------
(* launchElectron and its quit(): src/lib/launch-electron.ts 174-378 *)

Fds == {"stdout", "stderr"}

\* line 101: terminateTree's default timeoutMs
TERMINATE_TIMEOUT_MS == 3000

\* line 338: await wait(300)
SETTLE_WAIT_MS == 300

LaunchErrorCodes == {"E_SPAWN", "E_EXIT_EARLY", "E_CDP_TIMEOUT"}

\* pc: "init" | "racing" (line 331) | "settling" (line 338) | "quitting"
\*     (line 367) | "resolved" | "rejected"
\* childPid, electronPid: 0 stands for undefined
\* errorTick: spawn failed and the child's 'error' event is queued (nextTick)
\* listening: the early-failure listeners are attached to the child
\* error: what the catch block caught; result: how the call settled
\* fdOpen/fdCloses: which log descriptors are open, and closeSync calls so far
\* qPc: where quit() is: "idle" | "root" | "leaf"; qCaller: "catch" | "user"
\* qOutcome: how the last quit() settled; qTermFalse: a terminateTree call of
\*     the last quit() returned false; firstEvent: the first child event that
\*     reached a listener, with the state of discovery at that moment
LaunchIdle ==
    [pc |-> "init", timeoutMs |-> 0, childPid |-> 0, errorTick |-> FALSE,
     listening |-> FALSE, cdpReady |-> FALSE, error |-> "none", result |-> "none",
     settledAt |-> NoWake, wake |-> NoWake, electronPid |-> 0,
     fdOpen |-> [f \in Fds |-> FALSE], fdCloses |-> [f \in Fds |-> 0],
     logsClosed |-> FALSE, qPc |-> "idle", qCaller |-> "none", qOutcome |-> "none",
     qTermFalse |-> FALSE, quits |-> 0, firstEvent |-> [kind |-> "none", ws |-> "idle"]]

\* lines 188-198
closeLogs(l) ==
    IF l.logsClosed THEN l
    ELSE [l EXCEPT !.logsClosed = TRUE,
                   !.fdOpen = [f \in Fds |-> FALSE],
                   !.fdCloses = [f \in Fds |-> @[f] + 1]]

RethrowAsTimeout(err, quitOutcome) ==
    IF quitOutcome # "ok" THEN quitOutcome ELSE "E_CDP_TIMEOUT"

\* lines 367-374: what the catch block throws once quit() has settled
CatchRethrow(err, quitOutcome) ==
    IF quitOutcome # "ok" THEN quitOutcome
    ELSE IF err \in LaunchErrorCodes THEN err
    ELSE "E_CDP_TIMEOUT"

\* lines 357-365, 375-377: the call settles, after the finally block
LaunchSettle(w, res, t) ==
    [w EXCEPT !.l = [closeLogs(w.l) EXCEPT
                        !.pc = IF res = "ok" THEN "resolved" ELSE "rejected",
                        !.result = res, !.settledAt = t, !.wake = NoWake]]

\* quit() settles with `outcome` ("ok", or the code it threw); its caller goes on
QuitDone(w, outcome, t) ==
    LET l1 == [w.l EXCEPT !.qPc = "idle", !.qOutcome = outcome]
        w1 == [w EXCEPT !.l = l1] IN
      IF w.l.qCaller = "catch"
      THEN LaunchSettle(w1, CatchRethrow(w.l.error, outcome), t)
      ELSE w1

\* lines 318-327: the final sweep over listChildren(child.pid), then closeLogs
QuitSweep(w, t) ==
    LET leftover == listChildren(PsRows(w.procs), w.l.childPid)
        swept == [p \in Pids |->
                    IF (\E k \in 1..Len(leftover) : leftover[k].pid = p)
                       /\ SigRank("SIGKILL") >= w.procs[p].resist
                    THEN [w.procs[p] EXCEPT !.hit = TRUE] ELSE w.procs[p]] IN
      QuitDone([w EXCEPT !.procs = swept, !.l = closeLogs(w.l)], "ok", t)

\* line 312: okRoot
RootConfirmed(ok) == ok

\* lines 311-317: quit() after terminateTree returned `ok`
QuitAfterTerm(w, ok, t) ==
    LET w1 == [w EXCEPT !.l.qTermFalse = (@ \/ ~ok)] IN
      IF w.l.qPc = "root"
      THEN IF ~RootConfirmed(ok) THEN QuitDone(w1, "E_SPAWN", t)
           ELSE IF w.l.electronPid # 0 /\ w.l.electronPid # w.l.childPid
           THEN LET n == TermStart(w.procs, t, w.l.electronPid, TERMINATE_TIMEOUT_MS) IN
                  [w1 EXCEPT !.l.qPc = "leaf", !.term = n.term, !.procs = n.procs]
           ELSE QuitSweep(w1, t)
      ELSE QuitSweep(w1, t)

\* lines 303-311, 327: quit() up to its first await
QuitBegin(w, caller, t) ==
    LET w1 == [w EXCEPT !.l.qCaller = caller, !.l.qTermFalse = FALSE, !.l.qOutcome = "none"] IN
      IF w.l.childPid # 0
      THEN LET n == TermStart(w.procs, t, w.l.childPid, TERMINATE_TIMEOUT_MS) IN
             [w1 EXCEPT !.l.qPc = "root", !.term = n.term, !.procs = n.procs]
      ELSE QuitDone([w1 EXCEPT !.l = closeLogs(@)], "ok", t)

\* lines 366-367: the catch block is entered with `err`
LaunchCatch(w, err, t) ==
    QuitBegin([w EXCEPT !.l.pc = "quitting", !.l.error = err, !.l.wake = NoWake], "catch", t)

EarlyFailureAsExit(w, kind, ws, t) ==
    IF ~w.l.listening \/ w.l.cdpReady THEN w
    ELSE LET w1 == [w EXCEPT !.l.listening = FALSE,
                             !.l.firstEvent = [kind |-> kind, ws |-> ws]] IN
           IF w.l.pc = "racing" THEN LaunchCatch(w1, "E_EXIT_EARLY", t) ELSE w1

\* lines 226-256: onError / onExit run for the event `kind` ("error", "exit")
EarlyFailure(w, kind, ws, t) ==
    IF ~w.l.listening \/ w.l.cdpReady THEN w
    ELSE LET w1 == [w EXCEPT !.l.listening = FALSE,
                             !.l.firstEvent = [kind |-> kind, ws |-> ws]] IN
           IF w.l.pc = "racing"
           THEN LaunchCatch(w1, IF kind = "error" THEN "E_SPAWN" ELSE "E_EXIT_EARLY", t)
           ELSE w1

World == [l |-> launch, term |-> term, procs |-> procs]

SetWorld(n) == launch' = n.l /\ term' = n.term /\ procs' = n.procs

----------------------------------------------------------------------------
(* The child's environment: src/lib/launch-electron.ts 200-208 *)

\* The variables launchElectron sets, and one it does not touch
EnvKeys == {"E2E", "NODE_ENV", "ELECTRON_ENABLE_LOGGING", "E2E_CDP_PORT", "E2E_HEADLESS", "PATH"}

\* A variable that is not set
Absent == "absent"

\* process.env: each variable unset, or set to what the parent inherited
ProcessEnvs == [EnvKeys -> {Absent, "inherited"}]

\* opts.env: each variable left out, or given one of two values by the caller
CallerEnvs == [EnvKeys -> {Absent, "0", "1"}]

\* { ...base, ...over }: the keys of `over` win
Spread(base, over) == [k \in EnvKeys |-> IF over[k] # Absent THEN over[k] ELSE base[k]]

\* The ports of the model: what opts.cdpPort or findPort() can give
LaunchPorts == {1, 2}

\* String(cdpPort) at line 205
PortString(port) == IF port = 1 THEN "1" ELSE IF port = 2 THEN "2" ELSE "0"

\* line 181: opts.cdpPort ?? (await findPort())
ChosenPort(hasCdpPort, optsCdpPort, foundPort) ==
    IF hasCdpPort THEN optsCdpPort ELSE foundPort

\* lines 202-205: the variables launchElectron injects
Injected(cdpPort) ==
    [k \in EnvKeys |->
        CASE k = "E2E" -> "1"
          [] k = "NODE_ENV" -> "test"
          [] k = "ELECTRON_ENABLE_LOGGING" -> "1"
          [] k = "E2E_CDP_PORT" -> PortString(cdpPort)
          [] OTHER -> Absent]

EnvInjectedLast(processEnv, optsEnv, headless, cdpPort) ==
    LET e == Spread(Spread(processEnv, optsEnv), Injected(cdpPort)) IN
      IF headless THEN [e EXCEPT !["E2E_HEADLESS"] = "1"] ELSE e

\* lines 200-208: env, for process.env, opts.env, opts.headless and cdpPort
env(processEnv, optsEnv, headless, cdpPort) ==
    LET e == Spread(Spread(processEnv, Injected(cdpPort)), optsEnv) IN
      IF headless THEN [e EXCEPT !["E2E_HEADLESS"] = "1"] ELSE e

\* hasCdpPort, optsCdpPort: opts.cdpPort; foundPort: what findPort() resolves
\* with; cdpPort: the constant of line 181; polled: the port given to
\* getWsUrl; returned: cdpPort of the launch result
EnvIdle ==
    [pc |-> "idle", processEnv |-> [k \in EnvKeys |-> Absent],
     optsEnv |-> [k \in EnvKeys |-> Absent], headless |-> FALSE,
     childEnv |-> [k \in EnvKeys |-> Absent],
     hasCdpPort |-> FALSE, optsCdpPort |-> 0, foundPort |-> 0,
     cdpPort |-> 0, polled |-> 0, returned |-> 0]

----------------------------------------------------------------------------
(* PlaywrightDriver, windows: src/lib/playwright-driver.ts 38-44, 151-174, 566-590 *)

MaxPages == 3

MaxBrowsingContexts == 2

\* Pages are numbered in the order they were opened; 0 stands for no page.
PageIds == 1..MaxPages

\* browser.contexts()
BrowsingContexts == 1..MaxBrowsingContexts

\* The windows the app can show: their url and the title page.title() reads
PageKinds ==
    { [url |-> "app://main.html", title |-> "Main"],
      [url |-> "app://second.html", title |-> "Second"],
      [url |-> "https://example.com/second", title |-> "Example"] }

ClosedPage == [open |-> FALSE, bctx |-> 1, url |-> "", title |-> ""]

\* ConnectOptions['pick']: each hint is a string or left out (""); a pick that
\* is left out altogether behaves like one with both hints left out.
Picks == [titleContains : {"", "Second"}, urlIncludes : {"", "second"}]

\* String.prototype.includes, on the strings above (it is case sensitive)
Includes(str, sub) ==
    CASE sub = "second" -> str \in {"app://second.html", "https://example.com/second"}
      [] sub = "Second" -> str = "Second"
      [] OTHER -> FALSE

\* lines 38-44, 164: PREFERRED_PREFIXES.some((p) => url.startsWith(p))
HasPreferredPrefix(url) == url \in {"app://main.html", "app://second.html"}

\* String.prototype.includes when the hint may be the empty string
IncludesOrEmpty(str, sub) == sub = "" \/ Includes(str, sub)

ScoreCountingMissingHints(page, pick) ==
    (IF HasPreferredPrefix(page.url) THEN 5 ELSE 0)
    + (IF IncludesOrEmpty(page.url, pick.urlIncludes) THEN 4 ELSE 0)
    + (IF IncludesOrEmpty(page.title, pick.titleContains) THEN 4 ELSE 0)

\* lines 151-174: scorePage(page, pick).score
scorePage(page, pick) ==
    (IF HasPreferredPrefix(page.url) THEN 5 ELSE 0)
    + (IF pick.urlIncludes # "" /\ Includes(page.url, pick.urlIncludes) THEN 4 ELSE 0)
    + (IF pick.titleContains # "" /\ Includes(page.title, pick.titleContains) THEN 4 ELSE 0)

MatchesAnyHint(page, pick, requireMatch) ==
    IF ~requireMatch THEN TRUE
    ELSE \/ (pick.titleContains # "" /\ Includes(page.title, pick.titleContains))
         \/ (pick.urlIncludes # "" /\ Includes(page.url, pick.urlIncludes))

\* lines 575-581: matchesPick
matchesPick(page, pick, requireMatch) ==
    IF ~requireMatch THEN TRUE
    ELSE /\ (pick.titleContains # "" => Includes(page.title, pick.titleContains))
         /\ (pick.urlIncludes # "" => Includes(page.url, pick.urlIncludes))

NeverMustMatch(pick) == FALSE

\* lines 734, 785: mustMatch
mustMatch(pick) == pick.titleContains # "" \/ pick.urlIncludes # ""

RECURSIVE FlatPages(_, _)
\* lines 570-571: contexts.flatMap((ctx) => ctx.pages()), from context c on
FlatPages(pages, c) ==
    IF c > MaxBrowsingContexts THEN <<>>
    ELSE SelectSeq([i \in 1..MaxPages |-> i],
                   LAMBDA q : pages[q].open /\ pages[q].bctx = c)
         \o FlatPages(pages, c + 1)

RECURSIVE FirstEligible(_, _, _, _, _, _)
FirstEligible(pages, order, pick, requireMatch, best, i) ==
    IF i > Len(order) THEN best
    ELSE LET q == order[i] IN
           IF requireMatch /\ ~matchesPick(pages[q], pick, requireMatch)
           THEN FirstEligible(pages, order, pick, requireMatch, best, i + 1)
           ELSE IF best = 0
           THEN FirstEligible(pages, order, pick, requireMatch, q, i + 1)
           ELSE FirstEligible(pages, order, pick, requireMatch, best, i + 1)

RECURSIVE BestOf(_, _, _, _, _, _)
\* lines 572-589: the loop over pages; best is 0 while nothing was kept
BestOf(pages, order, pick, requireMatch, best, i) ==
    IF i > Len(order) THEN best
    ELSE LET q == order[i] IN
           IF requireMatch /\ ~matchesPick(pages[q], pick, requireMatch)
           THEN BestOf(pages, order, pick, requireMatch, best, i + 1)
           ELSE IF best = 0 \/ scorePage(pages[q], pick) > scorePage(pages[best], pick)
           THEN BestOf(pages, order, pick, requireMatch, q, i + 1)
           ELSE BestOf(pages, order, pick, requireMatch, best, i + 1)

\* lines 566-590: #pickBestPage(pick, requireMatch); 0 stands for null
pickBestPage(pages, pick, requireMatch) ==
    BestOf(pages, FlatPages(pages, 1), pick, requireMatch, 0, 1)

----------------------------------------------------------------------------
(* PlaywrightDriver, page sessions: src/lib/playwright-driver.ts 50-61, 268-407, 887-923 *)

MaxSessions == 3

MaxContexts == 3

MaxInjectors == 1

MaxConsole == 1

SessionIds == 1..MaxSessions

\* event.context of Runtime.executionContextCreated: auxData.type,
\* auxData.isDefault and name, as Chromium and Electron send them
CtxKinds ==
    { [type |-> "default", isDefault |-> TRUE, name |-> ""],
      [type |-> "isolated", isDefault |-> FALSE, name |-> ""],
      [type |-> "isolated", isDefault |-> FALSE, name |-> "Electron Isolated Context"],
      [type |-> "isolated", isDefault |-> FALSE, name |-> "__playwright_utility_world_1"],
      [type |-> "worker", isDefault |-> FALSE, name |-> ""] }

\* name.toLowerCase().includes('preload'), name.includes('Electron Isolated
\* Context') and name.startsWith('__playwright_utility_world'), on the names
\* contexts come with: "", "preload-bridge", "Electron Isolated Context" and
\* "__playwright_utility_world_1"
NameIncludesPreload(name) == name = "preload-bridge"

NameIsElectronIsolated(name) == name = "Electron Isolated Context"

isPlaywrightUtility(name) == name = "__playwright_utility_world_1"

\* lines 50-61
classifyWorld(auxData) ==
    IF auxData.type \in {"worker", "service_worker", "shared_worker"} THEN "worker"
    ELSE IF auxData.type = "node" THEN "main"
    ELSE IF auxData.type = "isolated" /\ NameIncludesPreload(auxData.name) THEN "preload"
    ELSE IF auxData.isDefault \/ auxData.type \in {"default", "main"} THEN "renderer"
    ELSE IF auxData.type = "isolated" THEN "isolated"
    ELSE "unknown"

\* line 283: hasPreload over the session's contexts map
hasPreload(contexts) == \E i \in 1..Len(contexts) : contexts[i].world = "preload"

WorldWithoutPromotion(ctx, contexts) ==
    IF NameIsElectronIsolated(ctx.name) THEN "preload" ELSE classifyWorld(ctx)

\* lines 274-286: the world the handler records for a created context
WorldOf(ctx, contexts) ==
    LET world == IF NameIsElectronIsolated(ctx.name) THEN "preload" ELSE classifyWorld(ctx) IN
      IF world = "isolated" /\ ~hasPreload(contexts) /\ ~isPlaywrightUtility(ctx.name)
      THEN "preload" ELSE world

\* Map.prototype.set on a map kept in insertion order
MapSet(contexts, info) ==
    IF \E i \in 1..Len(contexts) : contexts[i].id = info.id
    THEN [i \in 1..Len(contexts) |-> IF contexts[i].id = info.id THEN info ELSE contexts[i]]
    ELSE Append(contexts, info)

\* Map.prototype.get(id)?.world ?? 'unknown' (lines 307-308)
SourceOf(contexts, id) ==
    IF \E i \in 1..Len(contexts) : contexts[i].id = id
    THEN contexts[CHOOSE i \in 1..Len(contexts) : contexts[i].id = id].world
    ELSE "unknown"

InjectorsIgnoringWorld(injectors, world) == {}

\* line 396: the payloads of the injectors registered for `world`
InjectorsFor(injectors, world) ==
    {injectors[j].payload : j \in {k \in 1..Len(injectors) : world \in injectors[k].worlds}}

\* A session has its handlers attached (lines 273-358) and is in
\* #pageSessions (line 375) once its commands have been answered.
Listening(sess) == sess.stage = "set"

\* line 395: this.#injectors.filter(...), the matching payloads in the order
\* of their registration
MatchingPayloads(injectors, world) ==
    LET Keep(inj) == inj.payload \in InjectorsFor(injectors, world)
        matching == SelectSeq(injectors, Keep) IN
      [i \in 1..Len(matching) |-> matching[i].payload]

QueueEveryInjector(b, cid, matching) == [b EXCEPT !.ctxs[cid].replay = @ \o matching]

\* lines 391-407: #applyInjectorsToContext up to its first await: the command
\* of the first matching injector is sent, the others wait for its answer
applyInjectorsToContext(b, cid, matching) ==
    IF matching = <<>> THEN b
    ELSE [b EXCEPT !.ctxs[cid].got = @ \cup {Head(matching)},
                   !.ctxs[cid].replay = @ \o Tail(matching)]

\* lines 409-417: #installIpcTracer(session, contextId): its command is sent
\* at once
installIpcTracer(b, cid) == [b EXCEPT !.ctxs[cid].tracer = TRUE]

TracerForEveryPreload(enabled, world) == world = "preload"

\* line 301: the handler installs the tracer
ShouldInstallTracer(enabled, world) == enabled /\ world = "preload"

\* lines 273-304: the executionContextCreated handler of session sid runs for
\* context cid; #applyInjectorsToContext and #installIpcTracer are called and
\* not awaited (lines 300-303).  w is [b |-> browser, d |-> drv].
OnContextCreated(w, sid, cid) ==
    LET sess == w.d.sessions[sid]
        world == WorldOf(w.b.ctxs[cid].kind, sess.contexts)
        b1 == applyInjectorsToContext(w.b, cid, MatchingPayloads(w.d.injectors, world)) IN
      [b |-> IF ShouldInstallTracer(w.d.ipcTracingEnabled, world)
             THEN installIpcTracer(b1, cid) ELSE b1,
       d |-> [w.d EXCEPT !.sessions[sid].contexts = MapSet(@, [id |-> cid, world |-> world])]]

RECURSIVE DeliverContext(_, _, _)
\* The event for context cid reaches every session listening on its page
DeliverContext(w, cid, sid) ==
    IF sid > MaxSessions THEN w
    ELSE IF Listening(w.d.sessions[sid]) /\ w.d.sessions[sid].page = w.b.ctxs[cid].page
    THEN DeliverContext(OnContextCreated(w, sid, cid), cid, sid + 1)
    ELSE DeliverContext(w, cid, sid + 1)

RECURSIVE ReplayContexts(_, _, _)
\* line 360: on Runtime.enable the page reports its existing contexts to the
\* new session, oldest first
ReplayContexts(w, sid, cid) ==
    IF cid > Len(w.b.ctxs) THEN w
    ELSE IF w.b.ctxs[cid].page = w.d.sessions[sid].page
    THEN ReplayContexts(OnContextCreated(w, sid, cid), sid, cid + 1)
    ELSE ReplayContexts(w, sid, cid + 1)

\* lines 306-333: the consoleAPICalled handler of session sid, for event ev
\* raised by context cid
OnConsole(d, sid, cid, ev) ==
    [d EXCEPT !.consoleEvents =
        Append(@, [source |-> SourceOf(d.sessions[sid].contexts, cid),
                   event |-> ev, ctx |-> cid, page |-> d.sessions[sid].page])]

RECURSIVE DeliverConsole(_, _, _, _, _)
DeliverConsole(d, page, cid, ev, sid) ==
    IF sid > MaxSessions THEN d
    ELSE IF Listening(d.sessions[sid]) /\ d.sessions[sid].page = page
    THEN DeliverConsole(OnConsole(d, sid, cid, ev), page, cid, ev, sid + 1)
    ELSE DeliverConsole(d, page, cid, ev, sid + 1)

----------------------------------------------------------------------------
(* PlaywrightDriver, attaching and switching: src/lib/playwright-driver.ts 251-255, 268-376, 524-564, 730-794 *)

MaxCalls == 3

\* One #wirePageSession call that got past line 269, and the CDP session it
\* opens.  stage: "free" | "creating" (newCDPSession or an enable command is
\* pending, lines 270-362) | "set" (listening and stored in #pageSessions,
\* line 375).  awaited: the running call awaits it.
FreeSession == [stage |-> "free", page |-> 0, contexts |-> <<>>, awaited |-> FALSE]

\* One new-page waiter of waitForWindow (lines 744-760).  settled: what
\* waiter.promise settled with: "pending" | "page" | "null" | "error"; page:
\* the page its waitForEvent('page') produced, 0 if none.
NoWaiter == [settled |-> "none", cancelled |-> FALSE, page |-> 0]

\* The call in progress, or the last one that finished (pc = "done").
\* pick: the call's hints; target: the page it is attaching to, while it
\* runs; result: "ok" or the AppError code; resPage: the page whose url and
\* title were returned; madeWaiters: new-page waiters were created; world and
\* ctx: the world of an evaluation and the context its command was sent to;
\* scan: the pages #pickBestPage listed, while it reads their titles.
NoCall ==
    [op |-> "none", pc |-> "idle", pick |-> [titleContains |-> "", urlIncludes |-> ""],
     target |-> 0, result |-> "none", resPage |-> 0, madeWaiters |-> FALSE,
     worlds |-> {}, persist |-> FALSE, payload |-> 0, sid |-> 0, idx |-> 0,
     world |-> "none", ctx |-> 0, scan |-> [q \in PageIds |-> ClosedPage]]

BrowserIdle == [pages |-> [q \in PageIds |-> ClosedPage], ctxs |-> <<>>]

DriverIdle ==
    [connected |-> FALSE, page |-> 0,
     sessions |-> [i \in SessionIds |-> FreeSession],
     pageSessions |-> [q \in PageIds |-> 0],
     injectors |-> <<>>, consoleEvents |-> <<>>, ipcTracingEnabled |-> FALSE,
     waiters |-> [c \in BrowsingContexts |-> NoWaiter],
     call |-> NoCall, nCalls |-> 0, nEvents |-> 0]

DrvIdle == browser = BrowserIdle /\ drv = DriverIdle /\ fnCall = FnIdle

\* line 269: this.#pageSessions.has(page)
HasSession(d, page) == d.pageSessions[page] # 0

\* #wirePageSession(page) can be followed: it returns at line 269, or one more
\* session fits the model
CanWire(d, page) == HasSession(d, page) \/ \E i \in SessionIds : d.sessions[i].stage = "free"

\* lines 268-270: #wirePageSession(page) up to its first await
wirePageSession(d, page, awaited) ==
    IF HasSession(d, page) THEN d
    ELSE LET i == CHOOSE k \in SessionIds :
                    /\ d.sessions[k].stage = "free"
                    /\ \A j \in SessionIds : d.sessions[j].stage = "free" => k <= j IN
           [d EXCEPT !.sessions[i] = [stage |-> "creating", page |-> page,
                                       contexts |-> <<>>, awaited |-> awaited]]

\* lines 524-531: #setPage(page); the wiring it starts is not awaited
setPage(d, page) == wirePageSession([d EXCEPT !.page = page], page, FALSE)

\* The running call returns or throws
CallDone(d, result, resPage) ==
    [d EXCEPT !.call = [NoCall EXCEPT !.op = d.call.op, !.pc = "done", !.pick = d.call.pick,
                                      !.result = result, !.resPage = resPage,
                                      !.madeWaiters = d.call.madeWaiters,
                                      !.world = d.call.world, !.ctx = d.call.ctx]]

\* lines 254, 563 / 774-775 / 792-793: what the running call does once the
\* #wirePageSession(target) it awaited has returned
AfterWire(d) ==
    IF d.call.op = "connect" THEN CallDone([d EXCEPT !.connected = TRUE], "ok", d.call.target)
    ELSE CallDone(setPage(d, d.call.target), "ok", d.call.target)

\* `await this.#wirePageSession(target)` in the running call
AwaitWire(d, target) ==
    IF HasSession(d, target) THEN AfterWire([d EXCEPT !.call.target = target])
    ELSE wirePageSession([d EXCEPT !.call.target = target, !.call.pc = "wiring"], target, TRUE)

StartCall(d, op, pick) ==
    [d EXCEPT !.call = [NoCall EXCEPT !.op = op, !.pc = "running", !.pick = pick],
              !.nCalls = @ + 1]

\* lines 538-563: PlaywrightDriver.create(opts) up to `await driver.#init()`
create(d, pages, pick) ==
    LET best == pickBestPage(pages, pick, FALSE)
        d1 == StartCall(d, "connect", pick) IN
      IF best = 0 THEN CallDone(d1, "E_NO_PAGE", 0)
      ELSE AwaitWire([d1 EXCEPT !.page = best], best)

\* lines 756-758: waiter.cancel()
cancel(cancelled) == TRUE

CancelAll(waiters) ==
    [c \in BrowsingContexts |->
        IF waiters[c].settled = "none" THEN waiters[c]
        ELSE [waiters[c] EXCEPT !.cancelled = cancel(@)]]

\* lines 734-735, 570-571: waitForWindow(timeoutMs, pick) up to the first
\* await of #pickBestPage, which has read the list of the open pages and
\* awaits their titles one by one (line 574)
startWaitForWindow(d, pages, pick) ==
    [StartCall(d, "waitForWindow", pick) EXCEPT !.call.pc = "scanning", !.call.scan = pages]

\* lines 572-589, 736-760: the scan of the pages listed is over; the call
\* returns the best one or subscribes its waiters
afterScan(d) ==
    LET pick == d.call.pick
        existing == pickBestPage(d.call.scan, pick, mustMatch(pick))
        d1 == [d EXCEPT !.call.pc = "running", !.call.scan = NoCall.scan] IN
      IF existing # 0
      THEN CallDone(IF existing # d1.page THEN setPage(d1, existing) ELSE d1, "ok", existing)
      ELSE [d1 EXCEPT !.call.pc = "racing", !.call.madeWaiters = TRUE,
                      !.waiters = [c \in BrowsingContexts |->
                                      [settled |-> "pending", cancelled |-> FALSE,
                                       page |-> 0]]]

\* lines 730-760: waitForWindow(timeoutMs, pick) up to the race, when no
\* window opens while the titles are read
waitForWindow(d, pages, pick) == afterScan(startWaitForWindow(d, pages, pick))

\* lines 746-752, 762-775: the waiter of browsing context c gets `page`
WaiterGetsPage(d, c, page) ==
    IF d.waiters[c].cancelled
    THEN [d EXCEPT !.waiters[c].settled = "null", !.waiters[c].page = page]
    ELSE LET d1 == [d EXCEPT !.waiters[c].settled = "page", !.waiters[c].page = page] IN
           IF d1.call.pc = "racing"
           THEN AwaitWire([d1 EXCEPT !.waiters = CancelAll(@)], page)
           ELSE d1

\* lines 749-752, 776-780: the waiter of browsing context c times out
WaiterRejects(d, c) ==
    IF d.waiters[c].cancelled THEN [d EXCEPT !.waiters[c].settled = "null"]
    ELSE LET d1 == [d EXCEPT !.waiters[c].settled = "error"] IN
           IF d1.call.pc = "racing"
           THEN CallDone([d1 EXCEPT !.waiters = CancelAll(@)], "E_WAIT_TIMEOUT", 0)
           ELSE d1

RECURSIVE RejectPending(_, _)
\* The waiters were created together with one timeoutMs (lines 744-747), so
\* their timers fire in one turn of the event loop, in the order of the
\* contexts, and the reactions to one run before the next one fires
RejectPending(d, c) ==
    IF c > MaxBrowsingContexts THEN d
    ELSE IF d.waiters[c].settled = "pending" THEN RejectPending(WaiterRejects(d, c), c + 1)
    ELSE RejectPending(d, c + 1)

\* lines 784-794: switchWindow(pick) up to its first await
switchWindow(d, pages, pick) ==
    LET best == pickBestPage(pages, pick, mustMatch(pick))
        d1 == StartCall(d, "switchWindow", pick) IN
      IF best = 0 THEN CallDone(d1, "E_NO_PAGE", 0)
      ELSE AwaitWire(d1, best)

\* opts.worlds of injectGlobals; left out, it is all three worlds (line 892)
InjectWorlds == {{"renderer"}, {"renderer", "isolated", "preload"}}

RECURSIVE InjectLoop(_)
\* lines 900-922: the loop over info.contexts.values(), entered or resumed at
\* call.idx; a Map iterator also visits the entries added while it runs.  The
\* loop stops at each send it awaits (line 902); at its end the injector is
\* registered unless persist is false (lines 914-915).
InjectLoop(w) ==
    LET c == w.d.call
        contexts == IF c.sid = 0 THEN <<>> ELSE w.d.sessions[c.sid].contexts IN
      IF c.idx > Len(contexts)
      THEN [w EXCEPT !.d = CallDone(IF c.persist
                                    THEN [w.d EXCEPT !.injectors =
                                            Append(@, [worlds |-> c.worlds, payload |-> c.payload])]
                                    ELSE w.d, "ok", 0)]
      ELSE IF contexts[c.idx].world \in c.worlds
      THEN [b |-> [w.b EXCEPT !.ctxs[contexts[c.idx].id].got = @ \cup {c.payload}],
            d |-> [w.d EXCEPT !.call.idx = @ + 1, !.call.pc = "applying"]]
      ELSE InjectLoop([w EXCEPT !.d.call.idx = @ + 1])

\* lines 887-899: injectGlobals(globals, {worlds, persist}); the payload is
\* named after the call that brought it
injectGlobals(w, worlds, persist) ==
    LET d1 == StartCall(w.d, "injectGlobals", NoCall.pick) IN
      InjectLoop([w EXCEPT !.d = [d1 EXCEPT !.call.worlds = worlds, !.call.persist = persist,
                                            !.call.payload = d1.nCalls,
                                            !.call.sid = d1.pageSessions[d1.page],
                                            !.call.idx = 1]])

\* lines 377-380: #getPageSession(), the session stored for the current
\* page, 0 if none
getPageSession(d) == IF d.page = 0 THEN 0 ELSE d.pageSessions[d.page]

RECURSIVE TraceLoop(_)
\* lines 929-934: the loop of enableIpcTracing over info.contexts.values(),
\* entered or resumed at call.idx; it stops at each install it awaits
TraceLoop(w) ==
    LET c == w.d.call
        contexts == w.d.sessions[c.sid].contexts IN
      IF c.idx > Len(contexts) THEN [w EXCEPT !.d = CallDone(w.d, "ok", 0)]
      ELSE IF contexts[c.idx].world = "preload"
      THEN [b |-> installIpcTracer(w.b, contexts[c.idx].id),
            d |-> [w.d EXCEPT !.call.idx = @ + 1, !.call.pc = "tracing"]]
      ELSE TraceLoop([w EXCEPT !.d.call.idx = @ + 1])

\* lines 925-935: enableIpcTracing(enabled) up to its first await
enableIpcTracing(w, enabled) ==
    LET d1 == [StartCall(w.d, "enableIpcTracing", NoCall.pick)
                 EXCEPT !.ipcTracingEnabled = enabled]
        sid == getPageSession(d1) IN
      IF ~enabled \/ sid = 0 THEN [w EXCEPT !.d = CallDone(d1, "ok", 0)]
      ELSE TraceLoop([w EXCEPT !.d = [d1 EXCEPT !.call.sid = sid, !.call.idx = 1]])

\* The worlds of evalInRendererMainWorld, evalInIsolatedWorld and
\* evalInPreload (lines 819-832)
EvalWorlds == {"renderer", "isolated", "preload"}

\* lines 382-389: #findContextId(world): the first entry of the registry, in
\* the order of insertion, whose world is `world`; 0 stands for null
findContextId(contexts, world) ==
    IF \E i \in 1..Len(contexts) : contexts[i].world = world
    THEN contexts[CHOOSE i \in 1..Len(contexts) :
                    /\ contexts[i].world = world
                    /\ \A j \in 1..(i - 1) : contexts[j].world # world].id
    ELSE 0

\* lines 419-475: #evalInContext(world, fn, arg) for a world of the page, up
\* to the send of its Runtime command to the context found (lines 447-461)
evalInContext(d, world) ==
    LET d1 == [StartCall(d, "eval", NoCall.pick) EXCEPT !.call.world = world]
        sid == getPageSession(d)
        ctxId == IF sid = 0 THEN 0 ELSE findContextId(d.sessions[sid].contexts, world) IN
      IF sid = 0 \/ ctxId = 0 THEN CallDone(d1, "E_NO_PAGE", 0)
      ELSE CallDone([d1 EXCEPT !.call.ctx = ctxId], "ok", 0)

----------------------------------------------------------------------------
(* launch-electron CLI, "quit": src/cli/browser-tools.ts 403, 466-492 *)

CLI_QUIT_TIMEOUT_MS == 4000

\* lines 479-491, once terminateTree has returned `ok` for the pid in `stage`
CliAfter(stage, ok, rootOk, electronPid) ==
    IF stage = "root" /\ ~(electronPid = 0 \/ electronPid = RootPid)
    THEN [pc |-> "leaf", rootOk |-> ok, code |-> "none"]
    ELSE LET r == IF stage = "root" THEN ok ELSE rootOk
             e == IF stage = "root" THEN TRUE ELSE ok IN
           IF ~r \/ ~e
           THEN [pc |-> "failed", rootOk |-> r, code |-> "E_SPAWN"]
           ELSE [pc |-> "ok", rootOk |-> r, code |-> "none"]

----------------------------------------------------------------------------
(* SpecWs: getWsUrl called on its own *)

ProcsIdle == procs = [p \in Pids |-> [exists |-> FALSE, ppid |-> 1, pgid |-> p,
                                       resist |-> 1, hit |-> FALSE, cmd |-> "other"]]

CliIdle ==
    cliPc = "idle" /\ cliRootOk = FALSE /\ cliCode = "none" /\ cliRuns = 0 /\ cliElectronPid = 0

PidIdle == psRows = <<>> /\ pidResult = 0

PortIdle ==
    /\ portsBound = {}
    /\ fp = [i \in Launchers |-> [pc |-> "idle", port |-> 0, retries |-> 0]]

WsCall ==
    /\ wsPc = "idle"
    /\ \E tm \in WsTimeouts : WsEnter(tm, Responses)
    /\ UNCHANGED <<now, procs, term, cliVars, pidVars, launch, portVars, spawnEnv, drvVars>>

WsPollSettles ==
    /\ Earliest(wsWake, {})
    /\ WsFetchSettles
    /\ UNCHANGED <<procs, term, cliVars, pidVars, launch, portVars, spawnEnv, drvVars>>

WsPollSleeps ==
    /\ Earliest(wsWake, {})
    /\ WsSleepDone(Responses)
    /\ UNCHANGED <<procs, term, cliVars, pidVars, launch, portVars, spawnEnv, drvVars>>

InitWs ==
    /\ now = 0 /\ WsIdle /\ ProcsIdle /\ term = TermIdle /\ CliIdle /\ PidIdle
    /\ launch = LaunchIdle /\ PortIdle /\ spawnEnv = EnvIdle /\ DrvIdle

NextWs == WsCall \/ WsPollSettles \/ WsPollSleeps

SpecWs == InitWs /\ [][NextWs]_vars

\* C10: in getWsUrl no single poll request stays pending longer than
\* min(1500 ms, time left until the deadline); an aborted request is followed
\* by the next attempt, and getWsUrl rejects once the overall timeout has
\* elapsed: never before the deadline, and no later than one polling delay
\* after it.
C10_RequestsBoundedAndDeadlineGoverns ==
    /\ wsPc = "fetching" =>
         /\ wsWake - wsReqStart <= PER_REQUEST_TIMEOUT_MS
         /\ wsWake <= wsDeadline
    /\ wsPc = "sleeping" => wsWake <= wsDeadline + POLL_DELAY_MS
    /\ wsPc = "rejected" => now >= wsDeadline /\ now <= wsDeadline + POLL_DELAY_MS

\* getWsUrl has rejected after several requests, the last of which was aborted
C10_Witness ==
    /\ wsPc = "rejected"
    /\ wsPolls >= 2
    /\ wsLastError = "abort"
    /\ now > PER_REQUEST_TIMEOUT_MS

\* C11: getWsUrl resolves only out of a request that was answered
\* successfully with a non-empty address; every other outcome of a request
\* (connection error, abort, non-success status, unparsable body, missing or
\* empty address) only leads to the polling delay and then to another attempt
\* or to the timeout error, and that error, the only one raised, is raised
\* only once the deadline has passed.
C11_OnlyAddressResolvesOnlyTimeoutRejects ==
    [][/\ (wsPc' = "resolved" /\ wsPc # "resolved") =>
            (wsPc = "fetching" /\ wsPending = "url")
       /\ (wsPc = "fetching" /\ wsPending # "url") => wsPc' = "sleeping"
       /\ wsPc = "sleeping" =>
            wsPc' = (IF now' < wsDeadline THEN "fetching" ELSE "rejected")
       /\ (wsPc' = "rejected" /\ wsPc # "rejected") =>
            (wsPc \in {"idle", "sleeping"} /\ now' >= wsDeadline')
       /\ wsPc \in {"resolved", "rejected"} => wsPc' = wsPc]_vars

\* getWsUrl resolved on a later attempt, after a request that failed
C11_Witness ==
    /\ wsPc = "resolved"
    /\ wsPolls >= 3
    /\ wsLastError = "badjson"

----------------------------------------------------------------------------
(* SpecQuit: the CLI quit command run against a process tree, repeatedly *)

MaxCliRuns == 2

\* The electronPid the CLI is given: none (0), the root itself, or the leaf
CliElectronPids == {0, RootPid, LeafPid}

\* The tree the command finds: the root and a descendant in its group, each
\* possibly gone already, each with its own resistance to signals.
QuitTrees ==
    {ps \in [Pids -> ProcRecords] :
        /\ ps[RootPid].ppid = 1 /\ ps[RootPid].pgid = RootPid
        /\ ps[LeafPid].pgid = RootPid
        /\ ps[LeafPid].ppid = (IF ps[RootPid].exists THEN RootPid ELSE 1)
        /\ \A p \in Pids : ps[p].hit = FALSE /\ ps[p].cmd = "other"
        /\ \A p \in Pids : ~ps[p].exists => ps[p].resist = 1}

\* lines 466-479: `quit` starts with quitPid(rootPid)
CliQuit ==
    /\ cliPc \in {"idle", "ok", "failed"}
    /\ cliRuns < MaxCliRuns
    /\ LET n == TermStart(procs, now, RootPid, CLI_QUIT_TIMEOUT_MS) IN
         term' = n.term /\ procs' = n.procs
    /\ cliPc' = "root"
    /\ cliRootOk' = FALSE
    /\ cliCode' = "none"
    /\ cliRuns' = cliRuns + 1
    /\ cliElectronPid' \in CliElectronPids
    /\ UNCHANGED <<now, wsVars, pidVars, launch, portVars, spawnEnv, drvVars>>

\* A wait of terminateTree ends; when the call returns, the command goes on
\* in the same turn (lines 479-491).
CliTermWake ==
    /\ cliPc \in {"root", "leaf"}
    /\ Earliest(term.wake, {})
    /\ now' = Max(now, term.wake)
    /\ LET n == TermWake(term, procs, now') IN
         IF n.term.pc # "done"
         THEN term' = n.term /\ procs' = n.procs /\ UNCHANGED <<cliPc, cliRootOk, cliCode>>
         ELSE LET c == CliAfter(cliPc, n.term.result, cliRootOk, cliElectronPid) IN
                /\ cliPc' = c.pc /\ cliRootOk' = c.rootOk /\ cliCode' = c.code
                /\ IF c.pc = "leaf"
                   THEN LET m == TermStart(n.procs, now', cliElectronPid, CLI_QUIT_TIMEOUT_MS) IN
                          term' = m.term /\ procs' = m.procs
                   ELSE term' = n.term /\ procs' = n.procs
    /\ UNCHANGED <<wsVars, cliRuns, cliElectronPid, pidVars, launch, portVars, spawnEnv, drvVars>>

QuitProcDies ==
    /\ \E p \in Pids : ProcDies(p)
    /\ UNCHANGED <<now, wsVars, term, cliVars, pidVars, launch, portVars, spawnEnv, drvVars>>

InitQuit ==
    /\ now = 0 /\ WsIdle /\ procs \in QuitTrees /\ term = TermIdle /\ CliIdle /\ PidIdle
    /\ launch = LaunchIdle /\ PortIdle /\ spawnEnv = EnvIdle /\ DrvIdle

NextQuit == CliQuit \/ CliTermWake \/ QuitProcDies

SpecQuit == InitQuit /\ [][NextQuit]_vars

\* C5, as stated: terminateTree called on a process that is alive returns true
\* and the pid is not alive when it returns; called on a pid that is already
\* dead it returns true each time.
C5_AsStated ==
    term.pc = "done" => (term.result /\ ~term.aliveAtReturn)

\* C5: terminateTree returns true exactly when it finds the pid not alive, and
\* the pid is then not alive when it returns; it returns false only for a pid
\* that was alive when it was called and is still alive after the signals, the
\* polling window and the fallback; called any number of times on a pid that
\* is already dead it returns true each time.
C5_TrueIffConfirmedDead ==
    term.pc = "done" =>
        /\ term.result = ~term.aliveAtReturn
        /\ term.result => ~procs[term.pid].exists
        /\ ~term.wasAlive => term.result

\* A second run of the command found the root already dead and the call
\* returned true again, after a first run that ended successfully
C5_Witness ==
    /\ cliRuns = 2
    /\ term.pc = "done"
    /\ term.pid = RootPid
    /\ ~term.wasAlive
    /\ term.result
    /\ Len(term.sent) = 1

\* A terminateTree call begins in this step
TermCallBegins == term' # term /\ term'.pc = "signal" /\ Len(term'.sent) = 1

\* The processes a signal sent to -pid and to pid reaches and kills
Reached(ps, pid, sig) ==
    {p \in Pids : /\ ps[p].exists
                  /\ (p = pid \/ ps[p].pgid = pid)
                  /\ SigRank(sig) >= ps[p].resist}

\* The direct children of pid that a pkill with this signal kills
ChildrenKilled(ps, pid, sig) ==
    {p \in Pids : ps[p].exists /\ ps[p].ppid = pid /\ SigRank(sig) >= ps[p].resist}

\* C27: terminateTree sends SIGINT, then SIGTERM, then SIGKILL, each to the
\* process group and to the pid; a later signal is sent only if the pid was
\* alive after the wait that followed the previous one, and true is returned
\* as soon as the pid is seen dead; polling starts only after all three
\* signals failed, and only after the polling window is over are the direct
\* children killed and a final SIGKILL sent to the root.
C27_SignalsThenPollThenFallback ==
    [][/\ term'.sent # term.sent
          => LET k == Len(term'.sent) IN
               /\ k <= 3 /\ term'.sent = SubSeq(<<"SIGINT", "SIGTERM", "SIGKILL">>, 1, k)
               /\ term'.pc = "signal"
               /\ term'.wake = now' + (IF k = 3 THEN 250 ELSE 400)
               /\ k > 1 => /\ term.pc = "signal" /\ Len(term.sent) = k - 1
                           /\ term'.pid = term.pid
                           /\ now' = term.wake
                           /\ procs[term.pid].exists
               /\ \A p \in Reached(procs, term'.pid, term'.sent[k]) : procs'[p].hit
       /\ (term.pc = "signal" /\ term' # term /\ ~procs[term.pid].exists)
          => \/ term'.pc = "done" /\ term'.result /\ term'.sent = term.sent
             \/ TermCallBegins
       /\ (term.pc = "poll" /\ term' # term /\ ~procs[term.pid].exists /\ now' < term.deadline)
          => \/ term'.pc = "done" /\ term'.result
             \/ TermCallBegins
       /\ (term'.pc = "poll" /\ term' # term)
          => /\ term'.sent = <<"SIGINT", "SIGTERM", "SIGKILL">>
             /\ term.pc \in {"signal", "poll"}
             /\ procs'[term'.pid].exists
             /\ now' < term'.deadline
             /\ term'.deadline = (IF term.pc = "signal" THEN now' + term'.timeoutMs
                                  ELSE term.deadline)
       /\ (term'.pc = "fallbackTerm" /\ term' # term)
          => /\ term'.sent = <<"SIGINT", "SIGTERM", "SIGKILL">>
             /\ term.pc \in {"signal", "poll"}
             /\ now' >= term'.deadline
             /\ \A p \in ChildrenKilled(procs, term'.pid, "SIGTERM") : procs'[p].hit
       /\ (term'.pc = "fallbackKill" /\ term' # term)
          => /\ term.pc = "fallbackTerm"
             /\ \A p \in ChildrenKilled(procs, term'.pid, "SIGKILL") : procs'[p].hit
       /\ (term.pc = "fallbackKill" /\ term' # term)
          => \/ /\ term'.pc = "done"
                /\ term'.result = ~procs'[term.pid].exists
                /\ (procs[term.pid].exists /\ procs[term.pid].resist <= SigRank("SIGKILL"))
                     => procs'[term.pid].hit
             \/ TermCallBegins
       /\ (term'.pc = "done" /\ term' # term /\ ~term'.result)
          => term.pc = "fallbackKill"]_vars

\* The call on the root returned false after the three signals, the polling
\* window and the fallback: the root is still there
C27_Witness ==
    /\ term.pc = "done" /\ ~term.result
    /\ term.pid = RootPid
    /\ term.sent = <<"SIGINT", "SIGTERM", "SIGKILL">>
    /\ now >= term.deadline + 2 * FALLBACK_WAIT_MS
    /\ procs[RootPid].exists

----------------------------------------------------------------------------
(* SpecLaunch: one launchElectron call, the child it spawns, and quit() *)

MaxQuits == 2

LaunchTimeouts == {0, 200, 1000}

\* spawn(): the child starts ("ok"), the command cannot be executed and the
\* child emits 'error' ("enoent"), or spawn throws synchronously ("throw":
\* an empty command, E2BIG, ENOMEM, ...)
SpawnOutcomes == {"ok", "enoent", "throw"}

\* The processes a started command consists of: the root, and possibly one
\* descendant in its process group that may or may not look like the app.
LaunchTrees ==
    {ps \in [Pids -> ProcRecords] :
        /\ ps[RootPid].exists /\ ps[RootPid].ppid = 1 /\ ps[RootPid].pgid = RootPid
        /\ ps[RootPid].cmd = "other"
        /\ ps[RootPid].resist \in {1, 3, Unkillable}
        /\ ps[LeafPid].resist \in {1, Unkillable}
        /\ ps[LeafPid].ppid = RootPid /\ ps[LeafPid].pgid = RootPid
        /\ \A p \in Pids : ps[p].hit = FALSE
        /\ ~ps[LeafPid].exists => ps[LeafPid].resist = 1 /\ ps[LeafPid].cmd = "other"}

\* The endpoint of a launched app: it refuses the connection, answers with
\* the address, or accepts and never answers.
LaunchResponses ==
    {r \in Responses : r.delay = 0 /\ r.outcome \in {"error", "url", "never"}}

Timers == {wsWake, term.wake, launch.wake}

\* lines 174-334: the call, up to the race.  The descriptors are opened, the
\* child is spawned, the listeners are attached and getWsUrl is called; a
\* timeoutMs <= 0 makes getWsUrl reject before anything else can happen.
LaunchStart ==
    /\ launch.pc = "init"
    /\ \E tm \in LaunchTimeouts, sp \in SpawnOutcomes, tree \in LaunchTrees :
         LET l0 == [launch EXCEPT !.timeoutMs = tm, !.fdOpen = [f \in Fds |-> TRUE]] IN
           IF sp = "throw"
           THEN /\ launch' = [l0 EXCEPT !.pc = "rejected", !.result = "TypeError",
                                         !.settledAt = now]
                /\ UNCHANGED <<wsVars, procs, term>>
           ELSE LET l1 == [l0 EXCEPT !.pc = "racing", !.listening = TRUE,
                                     !.childPid = IF sp = "ok" THEN RootPid ELSE 0,
                                     !.errorTick = (sp = "enoent")]
                    w1 == [l |-> l1, term |-> term,
                           procs |-> IF sp = "ok" THEN tree ELSE procs] IN
                  /\ WsEnter(tm, LaunchResponses)
                  /\ SetWorld(IF wsPc' = "rejected" THEN LaunchCatch(w1, "timeout", now)
                              ELSE w1)
    /\ UNCHANGED <<now, cliVars, pidVars, portVars, spawnEnv, drvVars>>

\* The queued 'error' event of a failed spawn is emitted (onError, lines 227-236)
ChildError ==
    /\ launch.errorTick
    /\ SetWorld(EarlyFailure([World EXCEPT !.l.errorTick = FALSE], "error", wsPc, now))
    /\ UNCHANGED <<now, wsVars, cliVars, pidVars, portVars, spawnEnv, drvVars>>

\* The child exits, of a signal or by itself, and its 'exit'/'close' events
\* are emitted (onExit, lines 237-247)
ChildExits ==
    /\ launch.childPid # 0
    /\ procs[launch.childPid].exists
    /\ SetWorld(EarlyFailure([World EXCEPT !.procs = Exited(procs, launch.childPid)],
                             "exit", wsPc, now))
    /\ UNCHANGED <<now, wsVars, cliVars, pidVars, portVars, spawnEnv, drvVars>>

\* A descendant that was sent a signal it dies of exits
LeafDies ==
    /\ launch.pc # "init"
    /\ ProcDies(LeafPid)
    /\ UNCHANGED <<now, wsVars, term, cliVars, pidVars, launch, portVars, spawnEnv, drvVars>>

DiscoverySettlesAlways ==
    /\ ~launch.errorTick
    /\ Earliest(wsWake, Timers)
    /\ WsFetchSettles
    /\ IF wsPc' = "resolved"
       THEN launch' = [launch EXCEPT !.pc = "settling", !.cdpReady = TRUE,
                                     !.listening = FALSE,
                                     !.wake = now' + SETTLE_WAIT_MS]
       ELSE UNCHANGED launch
    /\ UNCHANGED <<procs, term, cliVars, pidVars, portVars, spawnEnv, drvVars>>

\* A poll of getWsUrl settles; an address wins the race (lines 331-338)
DiscoveryPollSettles ==
    /\ ~launch.errorTick
    /\ Earliest(wsWake, Timers)
    /\ WsFetchSettles
    /\ IF launch.pc = "racing" /\ wsPc' = "resolved"
       THEN launch' = [launch EXCEPT !.pc = "settling", !.cdpReady = TRUE,
                                     !.listening = FALSE,
                                     !.wake = now' + SETTLE_WAIT_MS]
       ELSE UNCHANGED launch
    /\ UNCHANGED <<procs, term, cliVars, pidVars, portVars, spawnEnv, drvVars>>

\* getWsUrl's delay ends; its timeout error loses or wins the race (line 366)
DiscoveryPollSleeps ==
    /\ ~launch.errorTick
    /\ Earliest(wsWake, Timers)
    /\ WsSleepDone(LaunchResponses)
    /\ SetWorld(IF launch.pc = "racing" /\ wsPc' = "rejected"
                THEN LaunchCatch(World, "timeout", now')
                ELSE World)
    /\ UNCHANGED <<cliVars, pidVars, portVars, spawnEnv, drvVars>>

\* lines 338-365: after the settling delay the leaf pid is resolved and the
\* launch descriptor written; writeFile may fail
LaunchSettles ==
    /\ launch.pc = "settling"
    /\ Earliest(launch.wake, Timers)
    /\ now' = Max(now, launch.wake)
    /\ \E writeOk \in BOOLEAN :
         LET ep == IF launch.childPid # 0
                   THEN resolveElectronPid(PsRows(procs), launch.childPid) ELSE 0
             w1 == [World EXCEPT !.l.electronPid = ep, !.l.wake = NoWake] IN
           SetWorld(IF writeOk THEN LaunchSettle(w1, "ok", now')
                    ELSE LaunchCatch(w1, "fs", now'))
    /\ UNCHANGED <<wsVars, cliVars, pidVars, portVars, spawnEnv, drvVars>>

\* A wait of terminateTree ends inside quit()
QuitTermWake ==
    /\ launch.qPc \in {"root", "leaf"}
    /\ ~launch.errorTick
    /\ Earliest(term.wake, Timers)
    /\ now' = Max(now, term.wake)
    /\ LET n == TermWake(term, procs, now')
           w1 == [World EXCEPT !.term = n.term, !.procs = n.procs] IN
         SetWorld(IF n.term.pc = "done" THEN QuitAfterTerm(w1, n.term.result, now')
                  ELSE w1)
    /\ UNCHANGED <<wsVars, cliVars, pidVars, portVars, spawnEnv, drvVars>>

\* The caller of a resolved launch calls quit()
UserQuit ==
    /\ launch.pc = "resolved"
    /\ launch.qPc = "idle"
    /\ launch.quits < MaxQuits
    /\ SetWorld(QuitBegin([World EXCEPT !.l.quits = @ + 1], "user", now))
    /\ UNCHANGED <<now, wsVars, cliVars, pidVars, portVars, spawnEnv, drvVars>>

InitLaunch ==
    /\ now = 0 /\ WsIdle /\ ProcsIdle /\ term = TermIdle /\ CliIdle /\ PidIdle
    /\ launch = LaunchIdle /\ PortIdle /\ spawnEnv = EnvIdle /\ DrvIdle

NextLaunch ==
    \/ LaunchStart \/ ChildError \/ ChildExits \/ LeafDies
    \/ DiscoveryPollSettles \/ DiscoveryPollSleeps \/ LaunchSettles
    \/ QuitTermWake \/ UserQuit

SpecLaunch == InitLaunch /\ [][NextLaunch]_vars

DiscoveryPending(ws) == ws \in {"fetching", "sleeping"}

\* C1, as stated: if the child's 'exit' or 'close' event is delivered before
\* endpoint discovery has returned an address, launchElectron rejects with
\* E_EXIT_EARLY and never resolves.
C1_AsStated ==
    (launch.firstEvent.kind = "exit" /\ launch.firstEvent.ws # "resolved") =>
        /\ launch.pc # "resolved"
        /\ launch.result \in {"none", "E_EXIT_EARLY"}

\* C1: if the child's 'exit' or 'close' event is delivered while endpoint
\* discovery is still pending (it has neither returned an address nor timed
\* out), launchElectron rejects with E_EXIT_EARLY and never resolves.
C1_ExitWhilePendingRejectsExitEarly ==
    (launch.firstEvent.kind = "exit" /\ DiscoveryPending(launch.firstEvent.ws)) =>
        /\ launch.pc \in {"quitting", "rejected"}
        /\ launch.error = "E_EXIT_EARLY"
        /\ launch.result \in {"none", "E_EXIT_EARLY"}
        /\ launch.pc = "rejected" => launch.result = "E_EXIT_EARLY"

\* The child exited during the race and the launch has rejected, while
\* discovery later found an address
C1_Witness ==
    /\ launch.firstEvent.kind = "exit"
    /\ DiscoveryPending(launch.firstEvent.ws)
    /\ launch.pc = "rejected"
    /\ launch.result = "E_EXIT_EARLY"
    /\ wsPc = "resolved"

\* C2, as stated: if the child emits 'error' before endpoint discovery has
\* succeeded, launchElectron rejects with E_SPAWN and never resolves.
C2_AsStated ==
    (launch.firstEvent.kind = "error" /\ launch.firstEvent.ws # "resolved") =>
        /\ launch.pc # "resolved"
        /\ launch.result \in {"none", "E_SPAWN"}

\* C2: if the child emits 'error' while endpoint discovery is still pending
\* (it has neither succeeded nor timed out, which a timeoutMs <= 0 does at
\* once), launchElectron rejects with E_SPAWN and never resolves, whatever is
\* delivered afterwards.
C2_ErrorWhilePendingRejectsSpawn ==
    (launch.firstEvent.kind = "error" /\ DiscoveryPending(launch.firstEvent.ws)) =>
        /\ launch.pc = "rejected"
        /\ launch.result = "E_SPAWN"

\* The spawn failed, the launch rejected, and discovery went on to find an
\* address afterwards
C2_Witness ==
    /\ launch.firstEvent.kind = "error"
    /\ DiscoveryPending(launch.firstEvent.ws)
    /\ launch.result = "E_SPAWN"
    /\ wsPc = "resolved"

\* The launch state the spec names, read off the call: spawning until the race
\* of line 331 is decided, ready once cdpReady is set, failed or exited once
\* the catch block was entered from the race
LaunchState(l) ==
    IF l.pc = "init" THEN "none"
    ELSE IF l.cdpReady THEN "ready"
    ELSE IF l.pc = "racing" THEN "spawning"
    ELSE IF l.error = "E_EXIT_EARLY" THEN "exited"
    ELSE "failed"

\* The step delivers a child event: the queued 'error', or the child's exit
ChildEventStep ==
    \/ launch.errorTick /\ ~launch'.errorTick
    \/ /\ launch.childPid # 0
       /\ procs[launch.childPid].exists /\ ~procs'[launch.childPid].exists

\* C25: the launch state only moves from spawning to ready, failed or exited
\* and never back: once discovery has succeeded no child 'error', 'exit' or
\* 'close' event changes the call (it neither rejects with E_SPAWN or
\* E_EXIT_EARLY nor returns to spawning), and a failed or exited launch never
\* becomes ready.
C25_LaunchStateNeverGoesBack ==
    [][/\ LaunchState(launch) \in {"ready", "failed", "exited"}
          => LaunchState(launch') = LaunchState(launch)
       /\ LaunchState(launch) = "spawning"
          => LaunchState(launch') \in {"spawning", "ready", "failed", "exited"}
       /\ (LaunchState(launch) = "ready" /\ ChildEventStep) => launch' = launch
       /\ LaunchState(launch') = "ready"
          => /\ launch'.error \notin {"E_SPAWN", "E_EXIT_EARLY"}
             /\ launch'.result # "E_EXIT_EARLY"
             /\ launch'.result = "E_SPAWN" => launch'.qTermFalse]_vars

\* The child exited by itself after the launch had resolved, and nobody has
\* called quit()
C25_Witness ==
    /\ launch.pc = "resolved" /\ launch.cdpReady
    /\ launch.quits = 0
    /\ ~procs[launch.childPid].exists

\* C26: launchElectron rejects with E_CDP_TIMEOUT only when the endpoint never
\* became reachable within the deadline; a failure after discovery succeeded
\* (resolving the leaf pid, writing the launch descriptor) or during cleanup
\* is never reported as E_CDP_TIMEOUT.
C26_CdpTimeoutOnlyWhenUnreachable ==
    (launch.pc = "rejected" /\ launch.result = "E_CDP_TIMEOUT") =>
        /\ ~launch.cdpReady
        /\ launch.error = "timeout"

\* The last quit() of a spawned child ran its final sweep and completed
QuitSweptAndCompleted ==
    launch.qPc = "idle" /\ launch.qOutcome = "ok" /\ launch.childPid # 0

\* C28: quit() performs the final descendant sweep only after the root pid
\* and, when a distinct leaf pid was resolved, the leaf pid have both been
\* confirmed dead; if either could not be confirmed dead, quit() does not
\* complete successfully.
C28_SweepOnlyAfterRootAndLeafConfirmedDead ==
    QuitSweptAndCompleted =>
        /\ ~launch.qTermFalse
        /\ ~procs[launch.childPid].exists
        /\ launch.electronPid \notin {0, launch.childPid} => ~procs[launch.electronPid].exists

\* C3: with timeoutMs = 200 and a child that stays alive but never exposes the
\* endpoint, launchElectron rejects with E_CDP_TIMEOUT within about 250 ms of
\* the call.
C3_TimeoutHonouredWithinSlack ==
    (launch.timeoutMs = 200 /\ launch.error = "timeout" /\ launch.firstEvent.kind = "none"
       /\ now > 250) =>
        /\ launch.pc = "rejected"
        /\ launch.result = "E_CDP_TIMEOUT"
        /\ launch.settledAt <= 250

\* C4: whenever launchElectron fails (early exit, spawn error or discovery
\* timeout) it terminates what it spawned and closes both log descriptors
\* before rejecting, and it rejects with the original failure's code.
C4_FailedLaunchCleansUpAndRethrows ==
    (launch.pc = "rejected" /\ launch.error \in {"E_EXIT_EARLY", "E_SPAWN", "timeout"}) =>
        /\ launch.result = (IF launch.error = "timeout" THEN "E_CDP_TIMEOUT"
                            ELSE launch.error)
        /\ \A f \in Fds : ~launch.fdOpen[f]
        /\ launch.childPid # 0 => ~procs[launch.childPid].exists

\* C6: terminateTree never throws; when it returns false its callers turn
\* that into an E_SPAWN failure: a quit() one of whose terminateTree calls
\* returned false rejects with E_SPAWN instead of reporting success.
C6_FalseBecomesSpawnFailure ==
    (launch.qPc = "idle" /\ launch.qOutcome # "none" /\ launch.qTermFalse) =>
        launch.qOutcome = "E_SPAWN"

\* C7: for every outcome of launchElectron and any number of later quit()
\* calls, each log descriptor the launch opened is closed exactly once: it is
\* closed by the time the launch has settled and never closed a second time.
C7_LogsClosedExactlyOnce ==
    /\ \A f \in Fds : launch.fdCloses[f] <= 1
    /\ launch.pc \in {"resolved", "rejected"} =>
         \A f \in Fds : ~launch.fdOpen[f] /\ launch.fdCloses[f] = 1

----------------------------------------------------------------------------
(* SpecEnv: the environment of the spawned child, for every opts.env *)

\* lines 181-215: the port is chosen, env is built and handed to spawn
SpawnWithEnv ==
    /\ spawnEnv.pc = "called"
    /\ LET cdpPort == ChosenPort(spawnEnv.hasCdpPort, spawnEnv.optsCdpPort, spawnEnv.foundPort) IN
         spawnEnv' = [spawnEnv EXCEPT !.pc = "spawned", !.cdpPort = cdpPort,
                         !.childEnv = env(spawnEnv.processEnv, spawnEnv.optsEnv,
                                          spawnEnv.headless, cdpPort)]
    /\ UNCHANGED <<now, wsVars, procs, term, cliVars, pidVars, launch, portVars, drvVars>>

\* lines 331-334: getWsUrl({ port: cdpPort, ... }) starts polling
DiscoveryStarts ==
    /\ spawnEnv.pc = "spawned"
    /\ spawnEnv' = [spawnEnv EXCEPT !.pc = "polling", !.polled = spawnEnv.cdpPort]
    /\ UNCHANGED <<now, wsVars, procs, term, cliVars, pidVars, launch, portVars, drvVars>>

\* lines 335-364: the endpoint answered; launch.json and the result carry
\* cdpPort
LaunchReturns ==
    /\ spawnEnv.pc = "polling"
    /\ spawnEnv' = [spawnEnv EXCEPT !.pc = "returned", !.returned = spawnEnv.cdpPort]
    /\ UNCHANGED <<now, wsVars, procs, term, cliVars, pidVars, launch, portVars, drvVars>>

\* opts.cdpPort given, or left out and a port found by findPort()
PortInputs ==
    {[hasCdpPort |-> TRUE, optsCdpPort |-> p, foundPort |-> 0] : p \in {1}}
    \cup {[hasCdpPort |-> FALSE, optsCdpPort |-> 0, foundPort |-> p] : p \in LaunchPorts}

InitEnv ==
    /\ now = 0 /\ WsIdle /\ ProcsIdle /\ term = TermIdle /\ CliIdle /\ PidIdle
    /\ launch = LaunchIdle /\ PortIdle /\ DrvIdle
    /\ \E pe \in ProcessEnvs, oe \in CallerEnvs, h \in BOOLEAN, pi \in PortInputs :
         spawnEnv = [EnvIdle EXCEPT !.pc = "called", !.processEnv = pe, !.optsEnv = oe,
                                    !.headless = h, !.hasCdpPort = pi.hasCdpPort,
                                    !.optsCdpPort = pi.optsCdpPort,
                                    !.foundPort = pi.foundPort]

NextEnv == SpawnWithEnv \/ DiscoveryStarts \/ LaunchReturns

SpecEnv == InitEnv /\ [][NextEnv]_vars

\* C12: for every key present in the caller's opts.env, the environment
\* handed to the spawned child holds the caller's value for that key, for any
\* combination of opts.env and opts.headless.
C12_CallerEnvNeverReplaced ==
    spawnEnv.pc = "spawned" =>
        \A k \in EnvKeys :
            spawnEnv.optsEnv[k] # Absent => spawnEnv.childEnv[k] = spawnEnv.optsEnv[k]

\* C35 as stated: the port in the child's E2E_CDP_PORT is always the port
\* that getWsUrl polls and that launchElectron returns as cdpPort, for every
\* combination of opts.cdpPort and opts.env.
C35_ChildPortAlwaysThePolledPort ==
    /\ spawnEnv.pc \in {"polling", "returned"}
         => spawnEnv.childEnv["E2E_CDP_PORT"] = PortString(spawnEnv.polled)
    /\ spawnEnv.pc = "returned" => spawnEnv.returned = spawnEnv.polled

\* C35: the port getWsUrl polls and the cdpPort launchElectron returns are
\* both opts.cdpPort, or the port findPort() gave when opts.cdpPort is left
\* out; the child's E2E_CDP_PORT carries that port when opts.env has no
\* E2E_CDP_PORT, and the caller's value when it has one.
C35_ChildPortIsPolledUnlessCallerSetsIt ==
    /\ spawnEnv.pc \in {"polling", "returned"} =>
         /\ spawnEnv.polled = ChosenPort(spawnEnv.hasCdpPort, spawnEnv.optsCdpPort,
                                         spawnEnv.foundPort)
         /\ spawnEnv.childEnv["E2E_CDP_PORT"]
              = IF spawnEnv.optsEnv["E2E_CDP_PORT"] = Absent
                THEN PortString(spawnEnv.polled)
                ELSE spawnEnv.optsEnv["E2E_CDP_PORT"]
    /\ spawnEnv.pc = "returned" => spawnEnv.returned = spawnEnv.polled

\* A launch without opts.cdpPort whose opts.env sets E2E_CDP_PORT to 1 while
\* findPort() gave 2: the launcher polled and returned 2, the child was told 1
C35_Witness ==
    /\ spawnEnv.pc = "returned" /\ ~spawnEnv.hasCdpPort
    /\ spawnEnv.optsEnv["E2E_CDP_PORT"] = "1" /\ spawnEnv.childEnv["E2E_CDP_PORT"] = "1"
    /\ spawnEnv.polled = 2 /\ spawnEnv.returned = 2

----------------------------------------------------------------------------
(* The driver's actions: API calls, CDP replies and events of the app *)

DrvOthersUnchanged ==
    UNCHANGED <<now, wsVars, procs, term, cliVars, pidVars, launch, portVars, spawnEnv, fnCall>>

CallFinished == drv.call.pc \in {"idle", "done"}

\* connect(opts): PlaywrightDriver.create
Connect ==
    /\ ~drv.connected /\ drv.call.op = "none"
    /\ \E pick \in Picks : drv' = create(drv, browser.pages, pick)
    /\ UNCHANGED browser
    /\ DrvOthersUnchanged

\* newCDPSession and the enable commands are answered (lines 270-375): the
\* handlers are attached, the page reports its contexts on Runtime.enable, the
\* session is stored and the call that awaited #wirePageSession goes on
WireCompletes ==
    /\ \E i \in SessionIds :
         /\ drv.sessions[i].stage = "creating"
         /\ LET d1 == [drv EXCEPT !.sessions[i].stage = "set",
                                   !.sessions[i].awaited = FALSE,
                                   !.pageSessions[drv.sessions[i].page] = i]
                w == ReplayContexts([b |-> browser, d |-> d1], i, 1) IN
              /\ browser' = w.b
              /\ drv' = IF drv.sessions[i].awaited THEN AfterWire(w.d) ELSE w.d
    /\ DrvOthersUnchanged

\* waitForWindow is called and no window opens while #pickBestPage reads the
\* titles of the pages it listed (SpecScan follows the scan through its awaits)
WaitForWindowCall ==
    /\ drv.connected /\ CallFinished /\ drv.nCalls < MaxCalls
    /\ \A c \in BrowsingContexts : drv.waiters[c].settled # "pending"
    /\ \E pick \in Picks :
         /\ LET existing == pickBestPage(browser.pages, pick, mustMatch(pick)) IN
              existing # 0 => CanWire(drv, existing)
         /\ drv' = waitForWindow(drv, browser.pages, pick)
    /\ UNCHANGED browser
    /\ DrvOthersUnchanged

SwitchWindowCall ==
    /\ drv.connected /\ CallFinished /\ drv.nCalls < MaxCalls
    /\ \E pick \in Picks :
         /\ LET best == pickBestPage(browser.pages, pick, mustMatch(pick)) IN
              best # 0 => CanWire(drv, best)
         /\ drv' = switchWindow(drv, browser.pages, pick)
    /\ UNCHANGED browser
    /\ DrvOthersUnchanged

\* waitForWindow is called: #pickBestPage lists the open pages and asks for
\* the first title
WaitForWindowBegins ==
    /\ drv.connected /\ CallFinished /\ drv.nCalls < MaxCalls
    /\ \A c \in BrowsingContexts : drv.waiters[c].settled # "pending"
    /\ \E pick \in Picks : drv' = startWaitForWindow(drv, browser.pages, pick)
    /\ UNCHANGED browser
    /\ DrvOthersUnchanged

\* The last title of the scan is answered
ScanCompletes ==
    /\ drv.call.op = "waitForWindow" /\ drv.call.pc = "scanning"
    /\ LET existing == pickBestPage(drv.call.scan, drv.call.pick, mustMatch(drv.call.pick)) IN
         existing # 0 => CanWire(drv, existing)
    /\ drv' = afterScan(drv)
    /\ UNCHANGED browser
    /\ DrvOthersUnchanged

\* The app opens a window in browsing context c; the waiter of that context,
\* if one is pending, gets the page
PageOpens ==
    /\ \E q \in PageIds, c \in BrowsingContexts, k \in PageKinds :
         /\ ~browser.pages[q].open
         /\ \A r \in PageIds : r < q => browser.pages[r].open
         /\ CanWire(drv, q)
         /\ browser' = [browser EXCEPT !.pages[q] =
                           [open |-> TRUE, bctx |-> c, url |-> k.url, title |-> k.title]]
         /\ drv' = IF drv.waiters[c].settled = "pending" THEN WaiterGetsPage(drv, c, q)
                   ELSE drv
    /\ DrvOthersUnchanged

\* timeoutMs after the race began: every waitForEvent('page') still pending
\* times out
WaitTimeoutElapses ==
    /\ \E c \in BrowsingContexts : drv.waiters[c].settled = "pending"
    /\ drv' = RejectPending(drv, 1)
    /\ UNCHANGED browser
    /\ DrvOthersUnchanged

\* A page creates an execution context (a frame loads, a preload script or an
\* isolated world starts)
ContextCreated ==
    /\ Len(browser.ctxs) < MaxContexts
    /\ \E q \in PageIds, k \in CtxKinds :
         /\ browser.pages[q].open
         /\ LET cid == Len(browser.ctxs) + 1
                b1 == [browser EXCEPT !.ctxs =
                          Append(@, [page |-> q, kind |-> k, got |-> {}, replay |-> <<>>,
                                     tracer |-> FALSE, born |-> Len(drv.injectors)])]
                w == DeliverContext([b |-> b1, d |-> drv], cid, 1) IN
              browser' = w.b /\ drv' = w.d
    /\ DrvOthersUnchanged

\* A context of a page on which a session listens calls the console; 0 stands
\* for an event without executionContextId
ConsoleCalled ==
    /\ drv.nEvents < MaxConsole
    /\ \E q \in PageIds :
         /\ \E i \in SessionIds : Listening(drv.sessions[i]) /\ drv.sessions[i].page = q
         /\ \E cid \in {0} \cup {i \in 1..Len(browser.ctxs) : browser.ctxs[i].page = q} :
              drv' = DeliverConsole([drv EXCEPT !.nEvents = @ + 1], q, cid, drv.nEvents + 1, 1)
    /\ UNCHANGED browser
    /\ DrvOthersUnchanged

InjectGlobalsCall ==
    /\ drv.connected /\ CallFinished /\ drv.nCalls < MaxInjectors
    /\ \E worlds \in InjectWorlds, persist \in BOOLEAN :
         LET w == injectGlobals([b |-> browser, d |-> drv], worlds, persist) IN
           browser' = w.b /\ drv' = w.d
    /\ DrvOthersUnchanged

\* The Runtime.callFunctionOn that injectGlobals awaits is answered
InjectGlobalsResumes ==
    /\ drv.call.op = "injectGlobals" /\ drv.call.pc = "applying"
    /\ LET w == InjectLoop([b |-> browser, d |-> drv]) IN
         browser' = w.b /\ drv' = w.d
    /\ DrvOthersUnchanged

\* The answer to a command of #applyInjectorsToContext arrives (line 398):
\* the loop sends the command of the next matching injector
ReplayResumes ==
    /\ \E cid \in 1..Len(browser.ctxs) :
         /\ browser.ctxs[cid].replay # <<>>
         /\ browser' = [browser EXCEPT !.ctxs[cid].got = @ \cup {Head(browser.ctxs[cid].replay)},
                                       !.ctxs[cid].replay = Tail(@)]
    /\ UNCHANGED drv
    /\ DrvOthersUnchanged

EnableIpcTracingCall ==
    /\ drv.connected /\ CallFinished /\ drv.nCalls < MaxCalls
    /\ \E enabled \in BOOLEAN :
         LET w == enableIpcTracing([b |-> browser, d |-> drv], enabled) IN
           browser' = w.b /\ drv' = w.d
    /\ DrvOthersUnchanged

\* The install that enableIpcTracing awaits is answered
EnableIpcTracingResumes ==
    /\ drv.call.op = "enableIpcTracing" /\ drv.call.pc = "tracing"
    /\ LET w == TraceLoop([b |-> browser, d |-> drv]) IN
         browser' = w.b /\ drv' = w.d
    /\ DrvOthersUnchanged

MaxEvals == 1

\* The caller evaluates in a world of the current page
EvalInWorldCall ==
    /\ drv.connected /\ CallFinished /\ drv.nCalls < MaxEvals
    /\ \E world \in EvalWorlds : drv' = evalInContext(drv, world)
    /\ UNCHANGED browser
    /\ DrvOthersUnchanged

OthersIdle ==
    /\ now = 0 /\ WsIdle /\ ProcsIdle /\ term = TermIdle /\ CliIdle /\ PidIdle
    /\ launch = LaunchIdle /\ PortIdle /\ spawnEnv = EnvIdle /\ fnCall = FnIdle

----------------------------------------------------------------------------
(* SpecCtx: the execution contexts of one attached page and its console *)

MainWindow == [open |-> TRUE, bctx |-> 1, url |-> "app://main.html", title |-> "Main"]

SecondWindow == [open |-> TRUE, bctx |-> 1, url |-> "app://second.html", title |-> "Second"]

\* The session #wirePageSession stored for page q
AttachedSession(q) == [stage |-> "set", page |-> q, contexts |-> <<>>, awaited |-> FALSE]

\* A connected driver with its one page attached; no context reported yet
InitCtx ==
    /\ OthersIdle
    /\ browser = [BrowserIdle EXCEPT !.pages[1] = MainWindow]
    /\ drv = [DriverIdle EXCEPT !.connected = TRUE, !.page = 1,
                                !.sessions[1] = AttachedSession(1),
                                !.pageSessions[1] = 1]

NextCtx == ContextCreated \/ ConsoleCalled

SpecCtx == InitCtx /\ [][NextCtx]_vars

\* The contexts session sid recorded before its i-th one include a preload
PreloadRecordedBefore(sid, i) ==
    \E j \in 1..(i - 1) : drv.sessions[sid].contexts[j].world = "preload"

\* C13: in the registry of an attached page, whatever the order in which its
\* contexts were created, an isolated context that is not a Playwright utility
\* world and was created while no preload context was recorded is preload, an
\* isolated context without the Electron bridge name created while a preload
\* context was recorded is isolated, and a default context is renderer.
C13_ClassifiedByArrival ==
    \A sid \in SessionIds :
      \A i \in 1..Len(drv.sessions[sid].contexts) :
        LET e == drv.sessions[sid].contexts[i]
            ctx == browser.ctxs[e.id].kind IN
          /\ (/\ ctx.type = "isolated" /\ ~isPlaywrightUtility(ctx.name)
              /\ ~PreloadRecordedBefore(sid, i)) => e.world = "preload"
          /\ (/\ ctx.type = "isolated" /\ ~NameIsElectronIsolated(ctx.name)
              /\ PreloadRecordedBefore(sid, i)) => e.world = "isolated"
          /\ ctx.isDefault => e.world = "renderer"

\* The sequence (isolated, default, isolated) recorded as (preload, renderer,
\* isolated)
C13_Witness ==
    LET contexts == drv.sessions[1].contexts IN
      /\ Len(contexts) = 3
      /\ [i \in 1..3 |-> browser.ctxs[contexts[i].id].kind.type] = <<"isolated", "default", "isolated">>
      /\ \A i \in 1..3 : browser.ctxs[contexts[i].id].kind.name = ""
      /\ [i \in 1..3 |-> contexts[i].world] = <<"preload", "renderer", "isolated">>

----------------------------------------------------------------------------
(* SpecInject: injectGlobals and the contexts of two attached pages *)

\* A connected driver attached to two windows, the first one current
InitInject ==
    /\ OthersIdle
    /\ browser = [BrowserIdle EXCEPT !.pages[1] = MainWindow, !.pages[2] = SecondWindow]
    /\ drv = [DriverIdle EXCEPT !.connected = TRUE, !.page = 1,
                                !.sessions[1] = AttachedSession(1),
                                !.sessions[2] = AttachedSession(2),
                                !.pageSessions[1] = 1,
                                !.pageSessions[2] = 2]

NextInject == ContextCreated \/ InjectGlobalsCall \/ InjectGlobalsResumes

SpecInject == InitInject /\ [][NextInject]_vars

\* C14: every context created on an attached page after an injector was
\* registered is in its page's registry, and if its recorded world is one of
\* the injector's worlds it has received the injector's payload, or the replay
\* its creation started has the payload still to send.
C14_InjectorsReplayedIntoLaterContexts ==
    \A cid \in 1..Len(browser.ctxs) :
      /\ \E sid \in SessionIds :
           /\ drv.sessions[sid].page = browser.ctxs[cid].page
           /\ \E i \in 1..Len(drv.sessions[sid].contexts) : drv.sessions[sid].contexts[i].id = cid
      /\ \A sid \in SessionIds, j \in 1..Len(drv.injectors) :
           \A i \in 1..Len(drv.sessions[sid].contexts) :
             LET e == drv.sessions[sid].contexts[i] IN
               (/\ e.id = cid /\ j <= browser.ctxs[cid].born
                /\ e.world \in drv.injectors[j].worlds)
               => \/ drv.injectors[j].payload \in browser.ctxs[cid].got
                  \/ \E k \in 1..Len(browser.ctxs[cid].replay) :
                       browser.ctxs[cid].replay[k] = drv.injectors[j].payload

\* An injector for the renderer world registered before any context existed,
\* then a renderer context of the window that is not current, holding the
\* payload, next to an isolated context that was left alone
C14_Witness ==
    /\ Len(drv.injectors) = 1 /\ drv.injectors[1].worlds = {"renderer"}
    /\ Len(browser.ctxs) = 3
    /\ \A cid \in 1..3 : browser.ctxs[cid].born = 1 /\ browser.ctxs[cid].page = 2
    /\ browser.ctxs[2].kind.isDefault /\ browser.ctxs[2].got = {drv.injectors[1].payload}
    /\ browser.ctxs[1].got = {} /\ browser.ctxs[3].got = {}

----------------------------------------------------------------------------
(* SpecWin: connect, waitForWindow and switchWindow over the app's windows *)

\* The app shows its main window; the driver is not connected yet
InitWin ==
    /\ OthersIdle
    /\ drv = DriverIdle
    /\ browser = [BrowserIdle EXCEPT !.pages[1] = MainWindow]

NextWin ==
    \/ Connect \/ WireCompletes
    \/ WaitForWindowCall \/ SwitchWindowCall
    \/ PageOpens \/ WaitTimeoutElapses

SpecWin == InitWin /\ [][NextWin]_vars

\* C15: the driver never has two control sessions, open or being opened, for
\* the same page.
C15_OneSessionPerPage ==
    \A i, j \in SessionIds :
      (/\ i # j /\ drv.sessions[i].stage # "free" /\ drv.sessions[j].stage # "free")
      => drv.sessions[i].page # drv.sessions[j].page

\* The window's title contains titleContains and its url includes
\* urlIncludes, for each hint that is specified
SatisfiesHints(page, pick) ==
    /\ pick.titleContains # "" => Includes(page.title, pick.titleContains)
    /\ pick.urlIncludes # "" => Includes(page.url, pick.urlIncludes)

\* The open windows that satisfy the hints
MatchingOpen(b, pick) == {q \in PageIds : b.pages[q].open /\ SatisfiesHints(b.pages[q], pick)}

\* Those of them with the highest score
BestMatching(b, pick) ==
    {q \in MatchingOpen(b, pick) :
       \A r \in MatchingOpen(b, pick) : scorePage(b.pages[q], pick) >= scorePage(b.pages[r], pick)}

\* This step is the call of op: the driver runs it up to its first await
CallStarts(op) == drv'.nCalls = drv.nCalls + 1 /\ drv'.call.op = op

\* The waiters whose waitForEvent('page') produced a page that satisfies the
\* hints of the call
MatchingProducers(b, d) ==
    {c \in BrowsingContexts :
       /\ d.waiters[c].page # 0
       /\ SatisfiesHints(b.pages[d.waiters[c].page], d.call.pick)}

\* waitForWindow has returned a window after racing its waiters
RaceWon(d) ==
    d.call.op = "waitForWindow" /\ d.call.pc = "done" /\ d.call.madeWaiters /\ d.call.result = "ok"

\* Once the race is over every waiter is cancelled, and a cancelled waiter that
\* settles, by its timeout or by a late page, settles with null and changes
\* neither the current page nor the call's outcome
LosersSettleQuietly ==
    /\ (drv'.call.op = "waitForWindow" /\ drv'.call.pc = "done" /\ drv'.call.madeWaiters)
       => \A c \in BrowsingContexts : drv'.waiters[c].cancelled
    /\ \A c \in BrowsingContexts :
         (/\ drv.waiters[c].settled = "pending" /\ drv.waiters[c].cancelled
          /\ drv'.waiters[c].settled # "pending")
         => (drv'.waiters[c].settled = "null" /\ drv'.page = drv.page /\ drv'.call = drv.call)

\* C17: when waitForWindow raced its waiters and returned a window, and only
\* one waiter has produced a window matching the hints, that window is the one
\* it returned; every waiter is cancelled by then, and a cancelled waiter that
\* settles later does so without an error and without changing the current
\* page.
C17_RaceResolvesWithTheMatchingPage ==
    [][/\ (RaceWon(drv') /\ Cardinality(MatchingProducers(browser', drv')) = 1)
          => \A c \in MatchingProducers(browser', drv') :
                drv'.call.resPage = drv'.waiters[c].page
       /\ LosersSettleQuietly]_vars

\* waitForWindow is called while an open window satisfies its hints: it
\* returns in the same step with such a window, now current, and creates no
\* waiter
ExistingWindowReturnedAtOnce ==
    (CallStarts("waitForWindow") /\ MatchingOpen(browser, drv'.call.pick) # {})
    => /\ drv'.call.pc = "done" /\ drv'.call.result = "ok"
       /\ drv'.call.resPage \in MatchingOpen(browser, drv'.call.pick)
       /\ drv'.page = drv'.call.resPage
       /\ ~drv'.call.madeWaiters /\ drv'.waiters = drv.waiters

C19_ReturnedWindowSatisfiesHints ==
    (drv.call.op = "waitForWindow" /\ drv.call.pc = "done" /\ drv.call.result = "ok")
    => /\ drv.page = drv.call.resPage
       /\ SatisfiesHints(browser.pages[drv.call.resPage], drv.call.pick)

\* C20: switchWindow never waits.  Called while no open window satisfies the
\* hints it rejects at once with E_NO_PAGE, the current page and the control
\* sessions untouched; otherwise it attaches to a best-scoring window among
\* those that satisfy them and makes that window current when it returns.  It
\* creates no waiter and never ends with E_WAIT_TIMEOUT.
C20_SwitchWindowNeverWaits ==
    [][/\ CallStarts("switchWindow")
          => /\ drv'.waiters = drv.waiters /\ ~drv'.call.madeWaiters
             /\ IF MatchingOpen(browser, drv'.call.pick) = {}
                THEN /\ drv'.call.pc = "done" /\ drv'.call.result = "E_NO_PAGE"
                     /\ drv'.page = drv.page
                     /\ drv'.sessions = drv.sessions /\ drv'.pageSessions = drv.pageSessions
                ELSE \/ /\ drv'.call.pc = "wiring"
                        /\ drv'.call.target \in BestMatching(browser, drv'.call.pick)
                        /\ drv'.page = drv.page
                     \/ /\ drv'.call.pc = "done" /\ drv'.call.result = "ok"
                        /\ drv'.call.resPage \in BestMatching(browser, drv'.call.pick)
                        /\ drv'.page = drv'.call.resPage
       /\ (drv.call.op = "switchWindow" /\ drv.call.pc = "wiring" /\ drv'.call.pc = "done")
          => /\ drv'.call.result = "ok"
             /\ drv'.call.resPage = drv.call.target /\ drv'.page = drv.call.target
       /\ drv'.call.op = "switchWindow"
          => drv'.call.pc \in {"wiring", "done"} /\ drv'.call.result # "E_WAIT_TIMEOUT"]_vars

\* switchWindow was called with both hints while three windows were open and
\* none satisfied them: E_NO_PAGE, and the second window is still current
C20_Witness ==
    /\ drv.call.op = "switchWindow" /\ drv.call.pc = "done" /\ drv.call.result = "E_NO_PAGE"
    /\ drv.call.pick = [titleContains |-> "Second", urlIncludes |-> "second"]
    /\ \A q \in 1..3 : browser.pages[q].open
    /\ drv.page = 2

----------------------------------------------------------------------------
(* SpecConsole: the pages' console while windows are attached and switched *)

NextConsole == NextWin \/ ConsoleCalled

SpecConsole == InitWin /\ [][NextConsole]_vars

\* C16: every console event of a page has exactly one entry in the buffer,
\* and every entry carries the world that the registry of its page records for
\* the context that raised the event, unknown when the registry has no such
\* context.
C16_OneTaggedEntryPerConsoleEvent ==
    /\ \A ev \in 1..drv.nEvents :
         Cardinality({i \in 1..Len(drv.consoleEvents) : drv.consoleEvents[i].event = ev}) = 1
    /\ \A i \in 1..Len(drv.consoleEvents) :
         \A sid \in SessionIds :
           (Listening(drv.sessions[sid]) /\ drv.sessions[sid].page = drv.consoleEvents[i].page)
           => drv.consoleEvents[i].source =
                SourceOf(drv.sessions[sid].contexts, drv.consoleEvents[i].ctx)

----------------------------------------------------------------------------
(* SpecPort: concurrent launches that let findPort choose the port *)

PortOthersUnchanged == UNCHANGED <<now, wsVars, procs, term, cliVars, pidVars, launch, spawnEnv, drvVars>>

PortListen == (\E i \in Launchers : FindPortListen(i)) /\ PortOthersUnchanged

PortRelease == (\E i \in Launchers : FindPortRelease(i)) /\ PortOthersUnchanged

PortResolve == (\E i \in Launchers : FindPortResolve(i)) /\ PortOthersUnchanged

PortChildBinds == (\E i \in Launchers : ChildBindsPort(i)) /\ PortOthersUnchanged

InitPort ==
    /\ now = 0 /\ WsIdle /\ ProcsIdle /\ term = TermIdle /\ CliIdle /\ PidIdle
    /\ launch = LaunchIdle /\ PortIdle /\ spawnEnv = EnvIdle /\ DrvIdle

NextPort == PortListen \/ PortRelease \/ PortResolve \/ PortChildBinds

SpecPort == InitPort /\ [][NextPort]_vars

\* C8: for any interleaving of concurrent launches that supply no explicit
\* port, the ports handed out by findPort are pairwise distinct and each is
\* still bindable when its launch uses it.
C8_PortsDistinctAndBindable ==
    /\ \A i, j \in Launchers :
         (i # j /\ fp[i].pc \in {"have", "serving", "collision"}
                /\ fp[j].pc \in {"have", "serving", "collision"})
           => fp[i].port # fp[j].port
    /\ \A i \in Launchers : fp[i].pc # "collision"

----------------------------------------------------------------------------
(* SpecPid: resolveElectronPid over the process tables ps can print *)

MaxPsProcs == 3

PsPids == (RootPid + 1)..(RootPid + MaxPsProcs)

PsCmds == {"other", "app", "bin", "word", "helper"}

\* Every process other than the root has some parent: init, the root or
\* another process; the rows come in rising or falling pid order.
PsTables ==
    {t \in [PsPids -> [ppid : ({1, RootPid} \cup PsPids), cmd : PsCmds]] :
        \A p \in PsPids : t[p].ppid # p}

RECURSIVE TableRows(_, _, _)
TableRows(t, pids, rising) ==
    IF pids = {} THEN <<>>
    ELSE LET p == IF rising THEN CHOOSE x \in pids : \A y \in pids : x <= y
                  ELSE CHOOSE x \in pids : \A y \in pids : x >= y IN
           <<[pid |-> p, ppid |-> t[p].ppid, cmd |-> t[p].cmd]>>
             \o TableRows(t, pids \ {p}, rising)

\* launch-electron.ts 339: electronPidResolved = await resolveElectronPid(child.pid)
ResolvePid ==
    /\ pidResult = 0
    /\ pidResult' = resolveElectronPid(psRows, RootPid)
    /\ UNCHANGED <<now, wsVars, procs, term, cliVars, psRows, launch, portVars, spawnEnv, drvVars>>

InitPid ==
    /\ now = 0 /\ WsIdle /\ ProcsIdle /\ term = TermIdle /\ CliIdle
    /\ launch = LaunchIdle /\ PortIdle /\ spawnEnv = EnvIdle /\ DrvIdle
    /\ pidResult = 0
    /\ \E t \in PsTables, rising \in BOOLEAN :
         psRows = <<[pid |-> RootPid, ppid |-> 1, cmd |-> "other"]>>
                    \o TableRows(t, PsPids, rising)

NextPid == ResolvePid

SpecPid == InitPid /\ [][NextPid]_vars

\* The process tree read off the rows: the parent of a pid, and its depth
\* below the root (0 when the root is not among its ancestors).
RowParent(p) ==
    LET i == CHOOSE k \in 1..Len(psRows) : psRows[k].pid = p IN psRows[i].ppid

RowCmd(p) ==
    LET i == CHOOSE k \in 1..Len(psRows) : psRows[k].pid = p IN psRows[i].cmd

RECURSIVE DepthBelowRoot(_, _)
DepthBelowRoot(p, fuel) ==
    IF RowParent(p) = RootPid THEN 1
    ELSE IF fuel = 0 \/ RowParent(p) \notin PsPids THEN 0
    ELSE LET d == DepthBelowRoot(RowParent(p), fuel - 1) IN
           IF d = 0 THEN 0 ELSE d + 1

TreeDepth(p) == DepthBelowRoot(p, MaxPsProcs)

MatchingDescendants ==
    {p \in PsPids : TreeDepth(p) > 0 /\ isLikelyElectron(RowCmd(p)) > 0}

\* p ranks at least as well as q: higher score, then shallower, then lower pid
RanksFirst(p, q) ==
    \/ isLikelyElectron(RowCmd(p)) > isLikelyElectron(RowCmd(q))
    \/ /\ isLikelyElectron(RowCmd(p)) = isLikelyElectron(RowCmd(q))
       /\ \/ TreeDepth(p) < TreeDepth(q)
          \/ TreeDepth(p) = TreeDepth(q) /\ p <= q

\* C9: resolveElectronPid returns, among the descendants of the root whose
\* command line scores above zero, the one with the highest score, ties broken
\* by shallowest depth and then lowest pid; with no descendant, or none that
\* matches, it returns the root pid.
C9_LeafPidIsBestRanked ==
    pidResult # 0 =>
        IF MatchingDescendants = {}
        THEN pidResult = RootPid
        ELSE /\ pidResult \in MatchingDescendants
             /\ \A q \in MatchingDescendants : RanksFirst(pidResult, q)

\* A resolved table in which two matching descendants tie on score at
\* different depths and the deeper one has the lower pid.
C9_Witness ==
    /\ pidResult # 0
    /\ \E p, q \in MatchingDescendants :
         /\ isLikelyElectron(RowCmd(p)) = isLikelyElectron(RowCmd(q))
         /\ TreeDepth(p) < TreeDepth(q)
         /\ q < p
         /\ pidResult = p

\* What the command line of descendant p matches
MatchesBasename(p) == CmdClass(RowCmd(p)).base

BinaryPatterns(p) ==
    (IF CmdClass(RowCmd(p)).path THEN 1 ELSE 0) + (IF CmdClass(RowCmd(p)).word THEN 1 ELSE 0)

MatchesOnlyBinaryPatterns(p) ==
    BinaryPatterns(p) > 0 /\ ~MatchesBasename(p) /\ ~CmdClass(RowCmd(p)).helper

MatchesOnlyHelper(p) ==
    CmdClass(RowCmd(p)).helper /\ ~MatchesBasename(p) /\ BinaryPatterns(p) = 0

LeafScore(p) == isLikelyElectron(RowCmd(p))

Descendants == {p \in PsPids : TreeDepth(p) > 0}

\* C29 as stated: a descendant matching the launched binary's basename always
\* scores higher than every descendant matching only the known binary-name
\* patterns, which always scores higher than every descendant matching only
\* the helper pattern; so a candidate that does not match the basename never
\* outranks one that does.
C29_BasenameAlwaysOutranks ==
    pidResult # 0 =>
        /\ \A p, q \in Descendants :
             /\ (MatchesBasename(p) /\ MatchesOnlyBinaryPatterns(q)) => LeafScore(p) > LeafScore(q)
             /\ (MatchesOnlyBinaryPatterns(p) /\ MatchesOnlyHelper(q)) => LeafScore(p) > LeafScore(q)
        /\ (\E p \in Descendants : MatchesBasename(p))
             => (pidResult \in Descendants /\ MatchesBasename(pidResult))

\* C29: a descendant matching the launched binary's basename scores higher
\* than every descendant matching only one of the known binary-name patterns,
\* and a descendant matching only binary-name patterns scores higher than
\* every descendant matching only the helper pattern; the weights add up, so
\* a candidate that does not match the basename outranks one that does only
\* when its other matches weigh at least as much (both binary-name patterns:
\* 4 + 3 against 5).
C29_BasenameOutranksOneBinaryPattern ==
    pidResult # 0 =>
        /\ \A p, q \in Descendants :
             /\ (MatchesBasename(p) /\ MatchesOnlyBinaryPatterns(q) /\ BinaryPatterns(q) = 1)
                  => LeafScore(p) > LeafScore(q)
             /\ (MatchesOnlyBinaryPatterns(p) /\ MatchesOnlyHelper(q)) => LeafScore(p) > LeafScore(q)
        /\ (\E p \in Descendants : MatchesBasename(p))
             => /\ pidResult \in Descendants
                /\ \/ MatchesBasename(pidResult)
                   \/ /\ BinaryPatterns(pidResult) >= 1
                      /\ LeafScore(pidResult) >= 5
                      /\ \A p \in Descendants :
                           MatchesBasename(p) => LeafScore(pidResult) >= LeafScore(p)

\* Among the descendants are one matching the basename, one matching one
\* binary-name pattern and one matching both, and the last one was returned
C29_Witness ==
    /\ pidResult \in Descendants
    /\ BinaryPatterns(pidResult) = 2 /\ ~MatchesBasename(pidResult)
    /\ \E p, q \in Descendants :
         /\ MatchesBasename(p)
         /\ MatchesOnlyBinaryPatterns(q) /\ BinaryPatterns(q) = 1
         /\ LeafScore(q) < LeafScore(p) /\ LeafScore(p) < LeafScore(pidResult)

----------------------------------------------------------------------------
(* SpecPick: scorePage and #pickBestPage over the windows an app can show *)

\* Windows as scorePage reads them: the ones above, a remote page whose title
\* matches the title hint too, and a local page that matches the url hint only
ScoredKinds ==
    PageKinds \cup { [url |-> "https://example.com/second", title |-> "Second"],
                     [url |-> "app://second.html", title |-> "Settings"] }

\* browser.contexts() and their pages(): every page closed or showing one window
PageTables ==
    [PageIds -> {ClosedPage} \cup
                {[open |-> TRUE, bctx |-> c, url |-> k.url, title |-> k.title] :
                   c \in BrowsingContexts, k \in ScoredKinds}]

\* lines 573: the scores the loop of #pickBestPage reads, page by page (-1: closed)
ScorePages ==
    /\ fnCall.fn = "pickBestPage" /\ fnCall.pc = "args"
    /\ fnCall' = [fnCall EXCEPT !.pc = "scored",
                    !.scores = [q \in PageIds |->
                                  IF fnCall.pages[q].open
                                  THEN scorePage(fnCall.pages[q], fnCall.pick) ELSE 0 - 1]]
    /\ UNCHANGED <<now, wsVars, procs, term, cliVars, pidVars, launch, portVars, spawnEnv,
                   browser, drv>>

\* lines 566-590: #pickBestPage(pick, requireMatch) returns
PickBestPage ==
    /\ fnCall.fn = "pickBestPage" /\ fnCall.pc = "scored"
    /\ fnCall' = [fnCall EXCEPT !.pc = "done",
                    !.result = pickBestPage(fnCall.pages, fnCall.pick, fnCall.requireMatch)]
    /\ UNCHANGED <<now, wsVars, procs, term, cliVars, pidVars, launch, portVars, spawnEnv,
                   browser, drv>>

InitPick ==
    /\ now = 0 /\ WsIdle /\ ProcsIdle /\ term = TermIdle /\ CliIdle /\ PidIdle
    /\ launch = LaunchIdle /\ PortIdle /\ spawnEnv = EnvIdle
    /\ browser = BrowserIdle /\ drv = DriverIdle
    /\ \E pages \in PageTables, pick \in Picks, requireMatch \in BOOLEAN :
         fnCall = [fn |-> "pickBestPage", pc |-> "args", pages |-> pages, pick |-> pick,
                   requireMatch |-> requireMatch,
                   scores |-> [q \in PageIds |-> 0 - 1], result |-> 0]

NextPick == ScorePages \/ PickBestPage

SpecPick == InitPick /\ [][NextPick]_vars

\* The pages #pickBestPage may return: every open page, or with requireMatch
\* only the open pages that satisfy every hint that was given
EligiblePages ==
    {q \in PageIds :
        /\ fnCall.pages[q].open
        /\ fnCall.requireMatch => SatisfiesHints(fnCall.pages[q], fnCall.pick)}

\* C21: #pickBestPage returns a page whose score is maximal among the eligible
\* pages of all browsing contexts (with requireMatch the pages satisfying every
\* given hint, otherwise every open page), and no page exactly when none is
\* eligible.
C21_BestEligiblePageOrNone ==
    (fnCall.fn = "pickBestPage" /\ fnCall.pc = "done") =>
        IF EligiblePages = {}
        THEN fnCall.result = 0
        ELSE /\ fnCall.result \in EligiblePages
             /\ \A q \in EligiblePages : fnCall.scores[q] <= fnCall.scores[fnCall.result]

\* requireMatch excluded a page that scores higher than the page returned,
\* which lives in the second browsing context and is one of several eligible
C21_Witness ==
    /\ fnCall.fn = "pickBestPage" /\ fnCall.pc = "done"
    /\ fnCall.requireMatch
    /\ fnCall.result # 0 /\ fnCall.pages[fnCall.result].bctx = 2
    /\ \E q \in PageIds : /\ q \notin EligiblePages
                          /\ fnCall.scores[q] > fnCall.scores[fnCall.result]
    /\ Cardinality(EligiblePages) > 1

\* How many of the hints that were given the page matches
HintsMatched(page, pick) ==
    (IF pick.titleContains # "" /\ Includes(page.title, pick.titleContains) THEN 1 ELSE 0)
    + (IF pick.urlIncludes # "" /\ Includes(page.url, pick.urlIncludes) THEN 1 ELSE 0)

ScoredPages == {q \in PageIds : fnCall.pages[q].open}

\* The score is 0, +5 for a preferred prefix, +4 for each given hint matched
ScoreIsSumOfBonuses ==
    \A q \in ScoredPages :
        fnCall.scores[q] = (IF HasPreferredPrefix(fnCall.pages[q].url) THEN 5 ELSE 0)
                           + 4 * HintsMatched(fnCall.pages[q], fnCall.pick)

\* C22 as stated: scorePage returns 0, plus 5 for a preferred prefix, plus 4
\* for each given hint that matches, and so a page matching both hints always
\* outscores a page matching only one of them or only the preferred scheme.
C22_BothHintsAlwaysOutscore ==
    (fnCall.fn = "pickBestPage" /\ fnCall.pc = "scored") =>
        /\ ScoreIsSumOfBonuses
        /\ \A p, q \in ScoredPages :
             (HintsMatched(fnCall.pages[p], fnCall.pick) = 2
                /\ HintsMatched(fnCall.pages[q], fnCall.pick) < 2)
             => fnCall.scores[p] > fnCall.scores[q]

\* C22: scorePage returns 0, plus 5 for a preferred prefix, plus 4 for each
\* given hint that matches (a hint not given adds nothing); a page matching
\* both hints outscores a page matching neither, and outscores a page matching
\* only one of them unless that page alone has a preferred prefix.
C22_ScoreIsSumAndBothHintsOutscore ==
    (fnCall.fn = "pickBestPage" /\ fnCall.pc = "scored") =>
        /\ ScoreIsSumOfBonuses
        /\ \A p, q \in ScoredPages :
             (HintsMatched(fnCall.pages[p], fnCall.pick) = 2
                /\ HintsMatched(fnCall.pages[q], fnCall.pick) < 2)
             => \/ fnCall.scores[p] > fnCall.scores[q]
                \/ /\ HintsMatched(fnCall.pages[q], fnCall.pick) = 1
                   /\ HasPreferredPrefix(fnCall.pages[q].url)
                   /\ ~HasPreferredPrefix(fnCall.pages[p].url)
                   /\ fnCall.scores[p] = 8 /\ fnCall.scores[q] = 9

\* Scored with both hints given: a remote page matching both, a local page
\* matching one and a local page matching none
C22_Witness ==
    /\ fnCall.fn = "pickBestPage" /\ fnCall.pc = "scored"
    /\ fnCall.pick.titleContains # "" /\ fnCall.pick.urlIncludes # ""
    /\ \E p, q, r \in ScoredPages :
         /\ HintsMatched(fnCall.pages[p], fnCall.pick) = 2
         /\ ~HasPreferredPrefix(fnCall.pages[p].url)
         /\ HintsMatched(fnCall.pages[q], fnCall.pick) = 1
         /\ HasPreferredPrefix(fnCall.pages[q].url)
         /\ HintsMatched(fnCall.pages[r], fnCall.pick) = 0
         /\ fnCall.scores[r] = 5 /\ fnCall.scores[p] = 8 /\ fnCall.scores[q] = 9

----------------------------------------------------------------------------
(* SpecFlush: console entries arriving and flushConsole calls,
   src/lib/playwright-driver.ts 324-357, 489-517, 796-807 *)

MaxBuffered == 3

MaxFlushes == 2

\* ConsoleEntry.source of the entries that arrive
EntrySources == {"main", "renderer"}

\* ConsoleEntry.ts: the timestamp the event carries, whatever the arrival order
EntryStamps == {1, 2}

NoValue == 0 - 1

\* FlushConsoleOptions: sources is left out or a list, sinceTs is left out
\* (NoValue) or a number
FlushOptions ==
    {o \in [hasSources : BOOLEAN, sources : {{}, {"renderer"}, {"main", "preload"}},
            sinceTs : {NoValue, 0, 2}] : o.hasSources = (o.sources # {})}

\* lines 799-801: the filter callback
passesFilter(entry, opts) ==
    LET sourceOk == IF opts.hasSources THEN entry.source \in opts.sources ELSE TRUE
        tsOk == IF opts.sinceTs # NoValue /\ opts.sinceTs # 0
                THEN entry.ts >= opts.sinceTs ELSE TRUE IN
      sourceOk /\ tsOk

FlushClearingAll(buffer, opts) ==
    [out |-> SelectSeq(buffer, LAMBDA e : passesFilter(e, opts)), rest |-> <<>>]

\* lines 796-807: flushConsole(opts): what it returns and what it leaves buffered
flushConsole(buffer, opts) ==
    LET filtered == SelectSeq(buffer, LAMBDA e : passesFilter(e, opts)) IN
      [out |-> filtered,
       rest |-> SelectSeq(buffer, LAMBDA e : \A i \in 1..Len(filtered) : filtered[i] # e)]

\* lines 324-332, 489-494: a console event arrives and its entry is pushed
EntryArrives ==
    /\ fnCall.fn = "flushConsole"
    /\ drv.nEvents < MaxBuffered
    /\ \E source \in EntrySources, ts \in EntryStamps :
         drv' = [drv EXCEPT !.nEvents = @ + 1,
                   !.consoleEvents = Append(@, [event |-> drv.nEvents + 1,
                                                source |-> source, ts |-> ts])]
    /\ fnCall' = [fnCall EXCEPT !.quiet = FALSE]
    /\ UNCHANGED <<now, wsVars, procs, term, cliVars, pidVars, launch, portVars, spawnEnv,
                   browser>>

\* lines 796-807: flushConsole(opts) is called and returns
FlushConsoleCall ==
    /\ fnCall.fn = "flushConsole"
    /\ drv.nCalls < MaxFlushes
    /\ \E opts \in FlushOptions :
         LET r == flushConsole(drv.consoleEvents, opts) IN
           /\ drv' = [drv EXCEPT !.nCalls = @ + 1, !.consoleEvents = r.rest]
           /\ fnCall' = [fnCall EXCEPT
                           !.pc = "done", !.opts = opts, !.out = r.out,
                           !.before = drv.consoleEvents, !.quiet = TRUE,
                           !.repeated = fnCall.pc = "done" /\ fnCall.quiet /\ fnCall.opts = opts,
                           !.returned = [e \in 1..MaxBuffered |->
                                           @[e] + (IF \E i \in 1..Len(r.out) : r.out[i].event = e
                                                   THEN 1 ELSE 0)]]
    /\ UNCHANGED <<now, wsVars, procs, term, cliVars, pidVars, launch, portVars, spawnEnv,
                   browser>>

InitFlush ==
    /\ now = 0 /\ WsIdle /\ ProcsIdle /\ term = TermIdle /\ CliIdle /\ PidIdle
    /\ launch = LaunchIdle /\ PortIdle /\ spawnEnv = EnvIdle
    /\ browser = [BrowserIdle EXCEPT !.pages[1] = MainWindow]
    /\ drv = [DriverIdle EXCEPT !.connected = TRUE, !.page = 1]
    /\ fnCall = [fn |-> "flushConsole", pc |-> "idle",
                 opts |-> [hasSources |-> FALSE, sources |-> {}, sinceTs |-> NoValue],
                 out |-> <<>>, before |-> <<>>, quiet |-> TRUE, repeated |-> FALSE,
                 returned |-> [e \in 1..MaxBuffered |-> 0]]

NextFlush == EntryArrives \/ FlushConsoleCall

SpecFlush == InitFlush /\ [][NextFlush]_vars

\* The entry passes the filter the caller gave: its source is listed when
\* sources is given, and it is not older than sinceTs when sinceTs is given
WantedBy(entry, opts) ==
    /\ opts.hasSources => entry.source \in opts.sources
    /\ opts.sinceTs # NoValue => entry.ts >= opts.sinceTs

\* seq keeps exactly the wanted (or exactly the unwanted) entries of the
\* buffer, in the order they arrived
KeepsInOrder(seq, buffer, opts, wanted) ==
    /\ {seq[i] : i \in 1..Len(seq)}
         = {buffer[i] : i \in {j \in 1..Len(buffer) : WantedBy(buffer[j], opts) = wanted}}
    /\ \A i, j \in 1..Len(seq) : i < j => seq[i].event < seq[j].event

\* C23: flushConsole returns, in arrival order, exactly the buffered entries
\* that pass the sources/sinceTs filter and removes exactly those, leaving the
\* others in place and in order; each entry is returned by at most one flush,
\* and a second flush with the same filter and no new events returns nothing.
C23_FlushReturnsAndRemovesTheFiltered ==
    /\ \A e \in 1..MaxBuffered : fnCall.returned[e] <= 1
    /\ (fnCall.pc = "done" /\ fnCall.quiet) =>
          /\ KeepsInOrder(fnCall.out, fnCall.before, fnCall.opts, TRUE)
          /\ KeepsInOrder(drv.consoleEvents, fnCall.before, fnCall.opts, FALSE)
          /\ fnCall.repeated => fnCall.out = <<>>

\* A flush that returned two entries whose timestamps run against their
\* arrival order and left the entry that arrived between them in the buffer
C23_Witness ==
    /\ fnCall.pc = "done" /\ fnCall.quiet
    /\ Len(fnCall.out) = 2 /\ fnCall.out[1].ts > fnCall.out[2].ts
    /\ Len(drv.consoleEvents) = 1
    /\ fnCall.out[1].event < drv.consoleEvents[1].event
    /\ drv.consoleEvents[1].event < fnCall.out[2].event

----------------------------------------------------------------------------
(* SpecWait: PlaywrightDriver.waitForValue, as docs/api.md line 61 and
   src/lib/wait-for-value.spec.mjs describe it *)

MaxTimeoutMs == 4

MaxPollMs == 2

\* What one evaluation of fn does: return a nullish value, throw an Error with
\* some message, or return a value (0 is falsy but not nullish)
FnOutcomes == {"null", "boom", "bang", "zero", "ready"}

IsNullish(outcome) == outcome = "null"

IsThrow(outcome) == outcome \in {"boom", "bang"}

WaitDescriptions == {"none", "boom test"}

WaitArgs ==
    [fn : {"waitForValue"}, pc : {"args"}, timeoutMs : 1..MaxTimeoutMs, pollMs : 1..MaxPollMs,
     description : WaitDescriptions, deadline : {0}, wake : {NoWake},
     lastError : {"none"}, result : {"none"}, value : {"none"},
     details : {[lastError |-> "none", description |-> "none"]},
     attempts : {0}, lastThrown : {"none"}, lastReturned : {"none"},
     missed : {FALSE}, paced : {TRUE}, endedAt : {0}]

ResolveOnTruthy(w, outcome) ==
    IF outcome = "ready"
    THEN [w EXCEPT !.pc = "done", !.result = "ok", !.value = outcome]
    ELSE [w EXCEPT !.pc = "sleep", !.wake = now + w.pollMs,
                   !.lastError = IF IsThrow(outcome) THEN outcome ELSE @]

\* one turn of the loop after fn settled: return the value unless it is
\* nullish, remember the message of an error, then sleep pollMs
afterEvaluate(w, outcome) ==
    IF ~IsNullish(outcome) /\ ~IsThrow(outcome)
    THEN [w EXCEPT !.pc = "done", !.result = "ok", !.value = outcome]
    ELSE [w EXCEPT !.pc = "sleep", !.wake = now + w.pollMs,
                   !.lastError = IF IsThrow(outcome) THEN outcome ELSE @]

\* the head of the loop: out of time, reject with E_WAIT_TIMEOUT and the
\* details; otherwise evaluate fn once more
loopHead(w, t) ==
    IF t >= w.deadline
    THEN [w EXCEPT !.pc = "done", !.result = "E_WAIT_TIMEOUT", !.wake = NoWake,
                   !.details = [lastError |-> w.lastError, description |-> w.description]]
    ELSE [w EXCEPT !.pc = "eval", !.wake = NoWake,
                   !.paced = @ /\ (w.attempts = 0 \/ t = w.endedAt + w.pollMs)]

WaitOthersUnchanged ==
    UNCHANGED <<wsVars, procs, term, cliVars, pidVars, launch, portVars, spawnEnv, browser, drv>>

\* waitForValue(fn, { timeoutMs, pollMs, description }) is called
WaitForValueCall ==
    /\ fnCall.fn = "waitForValue" /\ fnCall.pc = "args"
    /\ fnCall' = loopHead([fnCall EXCEPT !.deadline = now + fnCall.timeoutMs], now)
    /\ now' = now
    /\ WaitOthersUnchanged

\* the evaluation of fn settles, at once or a moment later
EvaluateSettles ==
    /\ fnCall.fn = "waitForValue" /\ fnCall.pc = "eval"
    /\ \E outcome \in FnOutcomes, took \in {0, 1} :
         /\ now' = now + took
         /\ fnCall' = [afterEvaluate(fnCall, outcome) EXCEPT
                         !.wake = IF @ = NoWake THEN @ ELSE now' + fnCall.pollMs,
                         !.attempts = @ + 1, !.endedAt = now',
                         !.lastThrown = IF IsThrow(outcome) THEN outcome ELSE @,
                         !.lastReturned = outcome,
                         !.missed = @ \/ (fnCall.attempts > 0 /\ ~IsNullish(fnCall.lastReturned)
                                            /\ ~IsThrow(fnCall.lastReturned))]
    /\ WaitOthersUnchanged

\* the pollMs sleep ends
PollSleepEnds ==
    /\ fnCall.fn = "waitForValue" /\ fnCall.pc = "sleep"
    /\ now' = fnCall.wake
    /\ fnCall' = loopHead(fnCall, fnCall.wake)
    /\ WaitOthersUnchanged

InitWait ==
    /\ now = 0 /\ WsIdle /\ ProcsIdle /\ term = TermIdle /\ CliIdle /\ PidIdle
    /\ launch = LaunchIdle /\ PortIdle /\ spawnEnv = EnvIdle
    /\ browser = [BrowserIdle EXCEPT !.pages[1] = MainWindow]
    /\ drv = [DriverIdle EXCEPT !.connected = TRUE, !.page = 1]
    /\ fnCall \in WaitArgs

NextWait == WaitForValueCall \/ EvaluateSettles \/ PollSleepEnds

SpecWait == InitWait /\ [][NextWait]_vars

\* C24: waitForValue evaluates fn every pollMs, retrying after a nullish
\* result or a thrown error, and resolves with the first non-nullish value
\* after exactly the evaluations needed to reach it; when the time runs out
\* first it rejects with E_WAIT_TIMEOUT, whose details carry the message of the
\* last error thrown and the description.
C24_ResolvesWithFirstValueOrTimesOut ==
    fnCall.fn = "waitForValue" =>
        /\ fnCall.paced /\ ~fnCall.missed
        /\ fnCall.pc = "sleep" => (IsNullish(fnCall.lastReturned) \/ IsThrow(fnCall.lastReturned))
        /\ fnCall.pc = "done" =>
             \/ /\ fnCall.result = "ok"
                /\ fnCall.value = fnCall.lastReturned
                /\ fnCall.value \in {"zero", "ready"}
             \/ /\ fnCall.result = "E_WAIT_TIMEOUT"
                /\ now >= fnCall.deadline
                /\ fnCall.attempts > 0 =>
                     (IsNullish(fnCall.lastReturned) \/ IsThrow(fnCall.lastReturned))
                /\ fnCall.details.lastError = fnCall.lastThrown
                /\ fnCall.details.description = fnCall.description

\* Timed out after several evaluations, the last of them nullish, with the
\* message of the error thrown before it
C24_Witness ==
    /\ fnCall.fn = "waitForValue" /\ fnCall.pc = "done"
    /\ fnCall.result = "E_WAIT_TIMEOUT" /\ fnCall.attempts >= 2
    /\ fnCall.lastReturned = "null"
    /\ fnCall.details = [lastError |-> "boom", description |-> "boom test"]

----------------------------------------------------------------------------
(* SpecClassify: the world recorded for each context a session reports,
   src/lib/playwright-driver.ts 50-61, 273-304 *)

\* auxData.type as the protocol can report it ("" when it is left out)
ReportedTypes == {"default", "isolated", "worker", "service_worker", "node", ""}

ReportedNames == {"", "preload-bridge", "Electron Isolated Context",
                  "__playwright_utility_world_1"}

\* event.context of Runtime.executionContextCreated, any type with any name
ReportedContexts ==
    {[type |-> t, isDefault |-> (t = "default"), name |-> n] :
       t \in ReportedTypes, n \in ReportedNames}

\* lines 273-292: the handler classifies the context and records it in the
\* session's contexts map
ContextClassified ==
    /\ fnCall.fn = "classifyWorld"
    /\ Len(fnCall.contexts) < MaxContexts
    /\ \E ctx \in ReportedContexts :
         fnCall' = [fnCall EXCEPT
                      !.contexts = Append(@, [type |-> ctx.type, name |-> ctx.name,
                                              world |-> WorldOf(ctx, fnCall.contexts)])]
    /\ UNCHANGED <<now, wsVars, procs, term, cliVars, pidVars, launch, portVars, spawnEnv,
                   browser, drv>>

InitClassify ==
    /\ now = 0 /\ WsIdle /\ ProcsIdle /\ term = TermIdle /\ CliIdle /\ PidIdle
    /\ launch = LaunchIdle /\ PortIdle /\ spawnEnv = EnvIdle
    /\ browser = [BrowserIdle EXCEPT !.pages[1] = MainWindow]
    /\ drv = [DriverIdle EXCEPT !.connected = TRUE, !.page = 1,
                                !.sessions[1] = AttachedSession(1),
                                !.pageSessions[1] = 1]
    /\ fnCall = [fn |-> "classifyWorld", contexts |-> <<>>]

NextClassify == ContextClassified

SpecClassify == InitClassify /\ [][NextClassify]_vars

\* C30: the rules are applied in the stated order: a context whose reported
\* type is a worker kind is always classified worker and a node-type context
\* always main, whatever its name contains and whatever contexts were seen
\* before it; the bridge-marker and first-isolated rules never reclassify such
\* a context as preload.
C30_WorkerAndNodeTypesDecideFirst ==
    fnCall.fn = "classifyWorld" =>
        \A i \in 1..Len(fnCall.contexts) :
            /\ fnCall.contexts[i].type \in {"worker", "service_worker", "shared_worker"}
                 => fnCall.contexts[i].world = "worker"
            /\ fnCall.contexts[i].type = "node" => fnCall.contexts[i].world = "main"

----------------------------------------------------------------------------
(* SpecEval: world-scoped evaluations on one attached page with registered
   injectors, src/lib/playwright-driver.ts 273-304, 377-475, 819-832 *)

MaxRegistered == 2

\* The injectors earlier injectGlobals calls left registered (line 915), each
\* payload named after its call
RegisteredInjectors ==
    UNION {[1..n -> InjectWorlds] : n \in 0..MaxRegistered}

\* A connected driver with its one page attached and some injectors
\* registered; no context reported yet
InitEval ==
    /\ OthersIdle
    /\ browser = [BrowserIdle EXCEPT !.pages[1] = MainWindow]
    /\ \E reg \in RegisteredInjectors :
         drv = [DriverIdle EXCEPT !.connected = TRUE, !.page = 1,
                                  !.sessions[1] = AttachedSession(1),
                                  !.pageSessions[1] = 1,
                                  !.injectors = [j \in 1..Len(reg) |->
                                                   [worlds |-> reg[j], payload |-> j]]]

NextEval == ContextCreated \/ ReplayResumes \/ EvalInWorldCall

SpecEval == InitEval /\ [][NextEval]_vars

\* The world the registry of the current page recorded for context cid
RecordedWorld(d, cid) == SourceOf(d.sessions[getPageSession(d)].contexts, cid)

\* The context of `world` that the registry of the current page recorded last
NewestOfWorld(d, world) ==
    LET contexts == d.sessions[getPageSession(d)].contexts
        last == CHOOSE i \in 1..Len(contexts) :
                  /\ contexts[i].world = world
                  /\ \A j \in (i + 1)..Len(contexts) : contexts[j].world # world IN
      contexts[last].id

\* This step is a world-scoped evaluation whose command was sent to a context
EvalSent == CallStarts("eval") /\ drv'.call.result = "ok"

\* C31: when several contexts of the same world are recorded for the current
\* page, a world-scoped evaluation is sent to the most recently created
\* context of that world, never to an older one.
C31_EvalTargetsNewestContext ==
    [][EvalSent => drv'.call.ctx = NewestOfWorld(drv, drv'.call.world)]_vars

----------------------------------------------------------------------------
(* SpecApply: the routine that applies an injector payload inside a context,
   src/lib/playwright-driver.ts 64-91 *)

MaxKeys == 2
MaxApplications == 2

\* The names a payload can set; eval is the global the routine itself calls
GlobalKeys == {"a", "b", "eval"}

\* lines 64-74: serializeGlobals turns a function into its source text and
\* leaves any other value as it is.  The function of the model is
\* () => undefined; the source text of a built-in function does not parse.
PayloadEntries ==
    {[kind |-> "fn", source |-> src, value |-> "undefined"] :
        src \in {"() => undefined", "function () { [native code] }"}}
    \cup {[kind |-> "value", source |-> "", value |-> v] : v \in {"v", "undefined"}}

\* Object.entries(globals): distinct keys in the order of their definition
Payloads ==
    {p \in UNION {[1..n -> [key : GlobalKeys, entry : PayloadEntries]] : n \in 0..MaxKeys} :
       \A i, j \in 1..Len(p) : i # j => p[i].key # p[j].key}

\* A context before any payload: nothing set, eval built in
FreshGlobals == [k \in GlobalKeys |-> IF k = "eval" THEN "built-in eval" ELSE "undefined"]

\* eval('(' + entry.source + ')') at line 82, with whatever the name eval is
\* bound to in the context: the built-in parses the text, the function of the
\* model returns undefined, anything else cannot be called
CallEval(globals, source) ==
    IF globals["eval"] = "built-in eval"
    THEN IF source = "() => undefined" THEN [threw |-> FALSE, value |-> "fn"]
         ELSE [threw |-> TRUE, value |-> "SyntaxError"]
    ELSE IF globals["eval"] = "fn" THEN [threw |-> FALSE, value |-> "undefined"]
    ELSE [threw |-> TRUE, value |-> "TypeError"]

\* lines 80-85: the value of one entry
EntryValue(globals, entry) ==
    IF entry.kind = "fn" /\ entry.source # "" THEN CallEval(globals, entry.source)
    ELSE IF entry.kind = "value" THEN [threw |-> FALSE, value |-> entry.value]
    ELSE [threw |-> FALSE, value |-> "undefined"]

\* lines 86-87: globalThis[key] = value and window[key] = value, each in its
\* own try; a property that cannot be written stays as it was
Assign(globals, readOnly, key, value) ==
    IF key \in readOnly THEN globals ELSE [globals EXCEPT ![key] = value]

RECURSIVE ApplyFrom(_, _, _, _)
\* lines 78-90: the loop over the entries from the i-th one on; an entry
\* whose evaluation throws is left to the catch of line 88
ApplyFrom(globals, readOnly, payload, i) ==
    IF i > Len(payload) THEN globals
    ELSE LET v == EntryValue(globals, payload[i].entry) IN
           ApplyFrom(IF v.threw THEN globals
                     ELSE Assign(globals, readOnly, payload[i].key, v.value),
                     readOnly, payload, i + 1)

\* lines 76-91: apply(globals); every throw is caught inside it, so the call
\* returns
apply(globals, readOnly, payload) ==
    [globals |-> ApplyFrom(globals, readOnly, payload, 1), outcome |-> "returned"]

\* Runtime.callFunctionOn with applyGlobalsSource and the payload runs in the
\* context (lines 398-405)
ApplyGlobalsRuns ==
    /\ fnCall.fn = "applyGlobals"
    /\ Len(fnCall.after) < MaxApplications
    /\ LET r == apply(fnCall.globals, fnCall.readOnly, fnCall.payload) IN
         fnCall' = [fnCall EXCEPT !.globals = r.globals,
                                  !.after = Append(@, r.globals),
                                  !.outcome = r.outcome]
    /\ UNCHANGED <<now, wsVars, procs, term, cliVars, pidVars, launch, portVars, spawnEnv,
                   browser, drv>>

\* A payload and a fresh context, in which some names may be read-only
InitApply ==
    /\ now = 0 /\ WsIdle /\ ProcsIdle /\ term = TermIdle /\ CliIdle /\ PidIdle
    /\ launch = LaunchIdle /\ PortIdle /\ spawnEnv = EnvIdle
    /\ browser = BrowserIdle /\ drv = DriverIdle
    /\ \E payload \in Payloads, readOnly \in {{}, {"a"}} :
         fnCall = [fn |-> "applyGlobals", payload |-> payload, readOnly |-> readOnly,
                   globals |-> FreshGlobals, after |-> <<>>, outcome |-> "none"]

NextApply == ApplyGlobalsRuns

SpecApply == InitApply /\ [][NextApply]_vars

\* The globals of the context when the first application reaches the i-th
\* entry of the payload
GlobalsBefore(i) ==
    ApplyFrom(FreshGlobals, fnCall.readOnly, SubSeq(fnCall.payload, 1, i - 1), 1)

\* The i-th entry of the payload can then be evaluated and assigned
EntryIsSettable(i) ==
    /\ ~EntryValue(GlobalsBefore(i), fnCall.payload[i].entry).threw
    /\ fnCall.payload[i].key \notin fnCall.readOnly

\* C33: applying a payload never throws, applying it a second time leaves the
\* globals of the context as the first application left them, and a key
\* whose value cannot be evaluated or assigned is skipped: it keeps the value
\* it had while every key that can be set has the value of its entry.
C33_ApplyIsIdempotentAndSkipsBadKeys ==
    fnCall.fn = "applyGlobals" =>
        /\ fnCall.outcome \in {"none", "returned"}
        /\ \A n \in 2..Len(fnCall.after) : fnCall.after[n] = fnCall.after[1]
        /\ Len(fnCall.after) >= 1 =>
             \A i \in 1..Len(fnCall.payload) :
               LET key == fnCall.payload[i].key IN
                 IF EntryIsSettable(i)
                 THEN fnCall.after[1][key]
                        = EntryValue(GlobalsBefore(i), fnCall.payload[i].entry).value
                 ELSE fnCall.after[1][key] = FreshGlobals[key]

----------------------------------------------------------------------------
(* SpecTrace: call tracing and the contexts of one attached page,
   src/lib/playwright-driver.ts 273-304, 409-417, 925-935 *)

NextTrace == ContextCreated \/ EnableIpcTracingCall \/ EnableIpcTracingResumes

\* A connected driver with its one page attached, tracing disabled
InitTrace == InitCtx

SpecTrace == InitTrace /\ [][NextTrace]_vars

\* This step is the creation of a context on the attached page
ContextCreationStep == Len(browser'.ctxs) = Len(browser.ctxs) + 1

\* C34: on context creation the tracer is installed into the new context if
\* and only if the context is recorded as preload and tracing is enabled at
\* that moment; the creation of a context installs no tracer anywhere else.
C34_TracerOnCreationIffPreloadAndEnabled ==
    [][ContextCreationStep =>
         LET cid == Len(browser'.ctxs) IN
           /\ browser'.ctxs[cid].tracer
                = (RecordedWorld(drv', cid) = "preload" /\ drv.ipcTracingEnabled)
           /\ \A c \in 1..Len(browser.ctxs) : browser'.ctxs[c].tracer = browser.ctxs[c].tracer]_vars

\* Two preload contexts, the first created while tracing was enabled and
\* traced, the second created after tracing was disabled and left alone,
\* next to an untraced renderer context
C34_Witness ==
    /\ Len(browser.ctxs) = 3 /\ ~drv.ipcTracingEnabled
    /\ RecordedWorld(drv, 1) = "preload" /\ browser.ctxs[1].tracer
    /\ RecordedWorld(drv, 2) = "renderer" /\ ~browser.ctxs[2].tracer
    /\ RecordedWorld(drv, 3) = "preload" /\ ~browser.ctxs[3].tracer

----------------------------------------------------------------------------
(* SpecScan: waitForWindow with the scan of #pickBestPage followed through its
   awaits, src/lib/playwright-driver.ts 566-590, 730-782 *)

NextScan ==
    \/ WaitForWindowBegins \/ ScanCompletes
    \/ PageOpens \/ WaitTimeoutElapses \/ WireCompletes

\* A connected driver attached to the main window
InitScan == InitCtx

SpecScan == InitScan /\ [][NextScan]_vars

\* This step is waitForWindow rejecting with E_WAIT_TIMEOUT
WaitForWindowTimesOut ==
    /\ drv.call.op = "waitForWindow" /\ drv.call.pc # "done"
    /\ drv'.call.pc = "done" /\ drv'.call.result = "E_WAIT_TIMEOUT"

\* C36: waitForWindow times out only if no window satisfying the hints was
\* opened between the call and the deadline, also when the window opens
\* between the scan of the existing pages and the subscription of the
\* waiters: at the timeout no open window satisfies the hints.
C36_NoMatchingWindowMissed ==
    [][WaitForWindowTimesOut => MatchingOpen(browser', drv'.call.pick) = {}]_vars

----------------------------------------------------------------------------
(* The session of the page a call made current, checked under SpecWin *)

\* waitForWindow or switchWindow has resolved
WindowCallResolved(d) ==
    d.call.op \in {"waitForWindow", "switchWindow"} /\ d.call.pc = "done" /\ d.call.result = "ok"

\* C37: when waitForWindow or switchWindow has resolved, the page it made
\* current has its control session and context registry attached, so an
\* evaluation issued next does not fail with E_NO_PAGE for lack of a session.
C37_ResolvedWindowHasItsSession ==
    WindowCallResolved(drv) =>
        /\ drv.page = drv.call.resPage
        /\ getPageSession(drv) # 0
        /\ Listening(drv.sessions[getPageSession(drv)])

----------------------------------------------------------------------------
(* SpecRace: the race of waitForWindow against its deadline, for any number
   of browsing contexts, src/lib/playwright-driver.ts 743-781 *)

\* lines 743-760: one waiter per browsing context that browser.contexts()
\* returned, each with a timer of timeoutMs
RaceWaiters(n) == [c \in 1..n |-> [settled |-> "pending", cancelled |-> FALSE]]

\* lines 764-766, 777-779: waiters.forEach((waiter) => waiter.cancel())
RaceCancelAll(waiters) == [c \in 1..Len(waiters) |-> [waiters[c] EXCEPT !.cancelled = TRUE]]

\* lines 746-752: what a waiter settles with: null once cancelled, else the
\* page or the timeout error of waitForEvent
RaceSettle(waiters, c, outcome) ==
    [waiters EXCEPT ![c].settled = IF waiters[c].cancelled THEN "null" ELSE outcome]

RECURSIVE RaceTimeouts(_, _)
\* The timers of the waiters still pending fire in the order of the
\* contexts; the first rejection ends the race, and the catch of lines
\* 776-780 cancels the others before their timers are served
RaceTimeouts(r, c) ==
    IF c > Len(r.waiters) THEN r
    ELSE IF r.waiters[c].settled # "pending" THEN RaceTimeouts(r, c + 1)
    ELSE LET w1 == RaceSettle(r.waiters, c, "error") IN
           IF w1[c].settled = "error" /\ r.pc = "racing"
           THEN RaceTimeouts([r EXCEPT !.waiters = RaceCancelAll(w1), !.pc = "done",
                                       !.result = "E_WAIT_TIMEOUT"], c + 1)
           ELSE RaceTimeouts([r EXCEPT !.waiters = w1], c + 1)

RaceOthersUnchanged ==
    UNCHANGED <<now, wsVars, procs, term, cliVars, pidVars, launch, portVars, spawnEnv,
                browser, drv>>

\* A millisecond passes; a timer that is due fires before the clock moves on
RaceClockTicks ==
    /\ fnCall.fn = "waitForWindow" /\ fnCall.elapsed <= fnCall.timeoutMs
    /\ ~(/\ fnCall.elapsed = fnCall.timeoutMs
          /\ \E c \in 1..Len(fnCall.waiters) : fnCall.waiters[c].settled = "pending")
    /\ fnCall' = [fnCall EXCEPT !.elapsed = @ + 1]
    /\ RaceOthersUnchanged

\* timeoutMs after the subscription every waitForEvent still pending rejects
RaceTimersFire ==
    /\ fnCall.fn = "waitForWindow" /\ fnCall.elapsed = fnCall.timeoutMs
    /\ \E c \in 1..Len(fnCall.waiters) : fnCall.waiters[c].settled = "pending"
    /\ fnCall' = RaceTimeouts(fnCall, 1)
    /\ RaceOthersUnchanged

\* A window opens in browsing context c before the deadline (lines 762-773):
\* its waiter wins the race unless it was cancelled
RacePageOpens ==
    /\ fnCall.fn = "waitForWindow" /\ fnCall.elapsed < fnCall.timeoutMs
    /\ \E c \in 1..Len(fnCall.waiters) :
         /\ fnCall.waiters[c].settled = "pending"
         /\ LET w1 == RaceSettle(fnCall.waiters, c, "page") IN
              fnCall' = IF w1[c].settled = "page" /\ fnCall.pc = "racing"
                        THEN [fnCall EXCEPT !.waiters = RaceCancelAll(w1), !.pc = "wiring"]
                        ELSE [fnCall EXCEPT !.waiters = w1]
    /\ RaceOthersUnchanged

\* lines 773-780: scorePage and #wirePageSession are answered and the new
\* page becomes current, or one of them throws and the catch rejects
RaceWiringSettles ==
    /\ fnCall.fn = "waitForWindow" /\ fnCall.pc = "wiring"
    /\ \E wired \in BOOLEAN :
         fnCall' = IF wired
                   THEN [fnCall EXCEPT !.pc = "done", !.result = "ok", !.page = "new"]
                   ELSE [fnCall EXCEPT !.pc = "done", !.result = "E_WAIT_TIMEOUT"]
    /\ RaceOthersUnchanged

\* waitForWindow found no window to return and has subscribed its waiters,
\* one for each of the browsing contexts, which may be none
InitRace ==
    /\ now = 0 /\ WsIdle /\ ProcsIdle /\ term = TermIdle /\ CliIdle /\ PidIdle
    /\ launch = LaunchIdle /\ PortIdle /\ spawnEnv = EnvIdle
    /\ browser = BrowserIdle /\ drv = DriverIdle
    /\ \E n \in 0..MaxBrowsingContexts, t \in 1..MaxTimeoutMs :
         fnCall = [fn |-> "waitForWindow", timeoutMs |-> t, elapsed |-> 0,
                   waiters |-> RaceWaiters(n), pc |-> "racing", result |-> "none",
                   page |-> "current"]

NextRace == RaceClockTicks \/ RaceTimersFire \/ RacePageOpens \/ RaceWiringSettles

SpecRace == InitRace /\ [][NextRace]_vars

\* C38: a waitForWindow that is racing its waiters settles: it is not still
\* waiting once timeoutMs has elapsed, whatever the number of browsing
\* contexts; it ends with a window or with E_WAIT_TIMEOUT, and when it
\* rejects the current page is the one it was.
C38_WaitForWindowSettlesByItsDeadline ==
    fnCall.fn = "waitForWindow" =>
        /\ fnCall.pc = "racing" => fnCall.elapsed <= fnCall.timeoutMs
        /\ fnCall.pc = "done" => fnCall.result \in {"ok", "E_WAIT_TIMEOUT"}
        /\ (fnCall.pc = "done" /\ fnCall.result = "E_WAIT_TIMEOUT") => fnCall.page = "current"

----------------------------------------------------------------------------
(* SpecLog: the entries of the Log domain a page session buffers,
   src/lib/playwright-driver.ts 335-358 *)

\* entry.source and entry.level of Log.entryAdded, some of the values the
\* protocol defines
LogSources == {"worker", "javascript", "network", "other"}

LogLevels == {"info", "warning", "error"}

\* lines 348-350: the auxData the handler makes up for classifyWorld
LogAuxData(source) ==
    IF source = "worker" THEN [type |-> "worker", isDefault |-> FALSE, name |-> ""]
    ELSE [type |-> "renderer", isDefault |-> FALSE, name |-> ""]

\* lines 347-353: the entry the handler builds for a Log.entryAdded event
LogEntry(source, level) == [source |-> classifyWorld(LogAuxData(source)), type |-> level]

\* lines 335-357: the Log.entryAdded handler; the entry is pushed to
\* #consoleEvents
LogEntryAdded ==
    /\ fnCall.fn = "Log.entryAdded"
    /\ Len(fnCall.consoleEvents) < MaxBuffered
    /\ \E source \in LogSources, level \in LogLevels :
         fnCall' = [fnCall EXCEPT !.consoleEvents = Append(@, LogEntry(source, level)),
                                  !.received = Append(@, source)]
    /\ UNCHANGED <<now, wsVars, procs, term, cliVars, pidVars, launch, portVars, spawnEnv,
                   browser, drv>>

\* A page session is listening; nothing buffered yet
InitLog ==
    /\ now = 0 /\ WsIdle /\ ProcsIdle /\ term = TermIdle /\ CliIdle /\ PidIdle
    /\ launch = LaunchIdle /\ PortIdle /\ spawnEnv = EnvIdle
    /\ browser = [BrowserIdle EXCEPT !.pages[1] = MainWindow]
    /\ drv = [DriverIdle EXCEPT !.connected = TRUE, !.page = 1,
                                !.sessions[1] = AttachedSession(1),
                                !.pageSessions[1] = 1]
    /\ fnCall = [fn |-> "Log.entryAdded", consoleEvents |-> <<>>, received |-> <<>>]

NextLog == LogEntryAdded

SpecLog == InitLog /\ [][NextLog]_vars

\* C39: every entry of the Log domain is buffered with world worker when it
\* comes from a worker and with world renderer otherwise, never with world
\* unknown.
C39_LogEntriesAreWorkerOrRenderer ==
    fnCall.fn = "Log.entryAdded" =>
        /\ Len(fnCall.consoleEvents) = Len(fnCall.received)
        /\ \A i \in 1..Len(fnCall.consoleEvents) :
             fnCall.consoleEvents[i].source
               = IF fnCall.received[i] = "worker" THEN "worker" ELSE "renderer"

----------------------------------------------------------------------------
(* SpecReload: waitForTextAcrossReloads and the subscribers of the
   renderer-reload event, src/lib/playwright-driver.ts 834-837, 984-1015 *)

MaxOverallMs == 3
MaxAttemptMs == 2
MaxFailures == 3
MaxReloads == 2

\* lines 834-835: this.#emitter.on('renderer-reload', cb)
onRendererReload(subscribers, cb) == Append(subscribers, cb)

\* line 836: this.#emitter.off('renderer-reload', cb) removes the listener
\* added last under that function, if there is one
off(subscribers, cb) ==
    IF \E i \in 1..Len(subscribers) : subscribers[i] = cb
    THEN LET last == CHOOSE i \in 1..Len(subscribers) :
                       /\ subscribers[i] = cb
                       /\ \A j \in (i + 1)..Len(subscribers) : subscribers[j] # cb IN
           [i \in 1..(Len(subscribers) - 1) |->
              IF i < last THEN subscribers[i] ELSE subscribers[i + 1]]
    ELSE subscribers

\* lines 1012-1014: the call returns or throws through `finally { off() }`
leaveThroughFinally(c, result) ==
    [c EXCEPT !.pc = "done", !.result = result, !.subscribers = off(@, "own")]

\* lines 998-999, 1011: the head of the loop: another waitText while the
\* overall timeout has not elapsed, else E_WAIT_TIMEOUT
textLoopHead(c) ==
    IF c.elapsed < c.overall THEN [c EXCEPT !.pc = "attempt", !.attemptStart = c.elapsed]
    ELSE leaveThroughFinally(c, "E_WAIT_TIMEOUT")

GiveUpOnFailure(c) == leaveThroughFinally(c, "E_WAIT_TIMEOUT")

\* lines 1002-1009: the catch of a failed waitText, whose error has the code
\* E_WAIT_TIMEOUT (line 666)
afterFailure(c) ==
    IF c.reloaded THEN textLoopHead([c EXCEPT !.reloaded = FALSE])
    ELSE IF c.elapsed >= c.overall THEN leaveThroughFinally(c, "E_WAIT_TIMEOUT")
    ELSE textLoopHead(c)

ReloadOthersUnchanged ==
    UNCHANGED <<now, wsVars, procs, term, cliVars, pidVars, launch, portVars, spawnEnv,
                browser, drv>>

\* lines 984-999: the call subscribes its listener and starts the loop
WaitForTextAcrossReloadsCall ==
    /\ fnCall.fn = "waitForTextAcrossReloads" /\ fnCall.pc = "idle"
    /\ fnCall' = textLoopHead([fnCall EXCEPT
                                  !.subscribers = onRendererReload(@, "own")])
    /\ ReloadOthersUnchanged

\* A millisecond passes while waitText waits; its timer of perAttempt is
\* served before the clock moves on
AttemptClockTicks ==
    /\ fnCall.fn = "waitForTextAcrossReloads" /\ fnCall.pc = "attempt"
    /\ fnCall.elapsed - fnCall.attemptStart < fnCall.perAttempt
    /\ fnCall' = [fnCall EXCEPT !.elapsed = @ + 1]
    /\ ReloadOthersUnchanged

\* lines 365-369: the main frame navigates; every subscriber of
\* renderer-reload runs, the one of the call sets `reloaded` (lines 994-996)
RendererReloads ==
    /\ fnCall.fn = "waitForTextAcrossReloads" /\ fnCall.pc = "attempt"
    /\ fnCall.reloads < MaxReloads
    /\ fnCall' = [fnCall EXCEPT !.reloads = @ + 1,
                                 !.reloaded = IF \E i \in 1..Len(fnCall.subscribers) :
                                                   fnCall.subscribers[i] = "own"
                                              THEN TRUE ELSE @]
    /\ ReloadOthersUnchanged

\* lines 1000-1001: the text is visible, waitText resolves and the call
\* returns
AttemptSucceeds ==
    /\ fnCall.fn = "waitForTextAcrossReloads" /\ fnCall.pc = "attempt"
    /\ fnCall' = leaveThroughFinally(fnCall, "ok")
    /\ ReloadOthersUnchanged

\* waitText rejects, at its timeout or before it (the page was replaced)
AttemptFails ==
    /\ fnCall.fn = "waitForTextAcrossReloads" /\ fnCall.pc = "attempt"
    /\ \/ fnCall.failures < MaxFailures
       \/ fnCall.elapsed - fnCall.attemptStart = fnCall.perAttempt
    /\ fnCall' = afterFailure([fnCall EXCEPT !.failures = @ + 1])
    /\ ReloadOthersUnchanged

\* The call is about to be made; the caller may have subscribed to
\* renderer-reload itself
InitReload ==
    /\ now = 0 /\ WsIdle /\ ProcsIdle /\ term = TermIdle /\ CliIdle /\ PidIdle
    /\ launch = LaunchIdle /\ PortIdle /\ spawnEnv = EnvIdle
    /\ browser = BrowserIdle /\ drv = DriverIdle
    /\ \E overall \in 0..MaxOverallMs, perAttempt \in 1..MaxAttemptMs,
          before \in {<<>>, <<"caller">>} :
         fnCall = [fn |-> "waitForTextAcrossReloads", pc |-> "idle",
                   overall |-> overall, perAttempt |-> perAttempt,
                   elapsed |-> 0, attemptStart |-> 0, reloaded |-> FALSE,
                   reloads |-> 0, failures |-> 0,
                   subscribers |-> before, before |-> before, result |-> "none"]

NextReload ==
    \/ WaitForTextAcrossReloadsCall \/ AttemptClockTicks \/ RendererReloads
    \/ AttemptSucceeds \/ AttemptFails

SpecReload == InitReload /\ [][NextReload]_vars

\* This step is a waitText of the call being rejected
AttemptFailsStep ==
    fnCall.pc = "attempt" /\ fnCall'.failures = fnCall.failures + 1

\* This step ends the call
TextCallEnds == fnCall.pc # "done" /\ fnCall'.pc = "done"

\* C40: a failed attempt is followed by another attempt unless the overall
\* timeout has elapsed; the call ends with the text visible or, once the
\* overall timeout has elapsed, with E_WAIT_TIMEOUT; and however it ends, the
\* subscribers of renderer-reload are then those from before the call.
C40_RetriesUntilTimeoutAndUnsubscribes ==
    [][fnCall.fn = "waitForTextAcrossReloads" =>
         /\ (AttemptFailsStep /\ fnCall.elapsed < fnCall.overall)
              => (fnCall'.pc = "attempt" /\ fnCall'.attemptStart = fnCall.elapsed)
         /\ (AttemptFailsStep /\ fnCall.elapsed >= fnCall.overall)
              => (fnCall'.pc = "done" /\ fnCall'.result = "E_WAIT_TIMEOUT")
         /\ TextCallEnds =>
              /\ fnCall'.subscribers = fnCall.before
              /\ \/ fnCall'.result = "ok" /\ fnCall.pc = "attempt"
                 \/ fnCall'.result = "E_WAIT_TIMEOUT" /\ fnCall'.elapsed >= fnCall'.overall]_vars

\* A call made while the caller was subscribed that failed twice, once after
\* a reload, and timed out, leaving the caller's subscription alone
C40_Witness ==
    /\ fnCall.fn = "waitForTextAcrossReloads" /\ fnCall.pc = "done"
    /\ fnCall.result = "E_WAIT_TIMEOUT" /\ fnCall.failures >= 2 /\ fnCall.reloads >= 1
    /\ fnCall.before = <<"caller">> /\ fnCall.subscribers = <<"caller">>

====
